---- MODULE Spec2Model ----
(***************************************************************************)
(* Model of the analytical core of smart-dashboard:                        *)
(*   src/analytics/market_basket.py  (basket matrix, Apriori-style miner,  *)
(*                                    association rules, selectors)        *)
(*   src/analytics/rfm_analysis.py   (RFM scoring, segment classifier)     *)
(*                                                                         *)
(* Conventions.                                                            *)
(*  - Product names are the integers 1..NProducts, numbered in the sorted  *)
(*    order of the names, so that Python's sorted() is numeric order.      *)
(*  - A float that the code obtains by dividing counts is kept as an exact *)
(*    fraction <<num, den>>; den = 0 is numpy's NaN (0/0).  Comparisons    *)
(*    are made by cross multiplication and are False when a side is NaN.   *)
(*  - A pandas DataFrame is a record [columns, rows]; pd.DataFrame([]) has *)
(*    no columns and no rows, and reading a column it does not have raises *)
(*    KeyError.                                                            *)
(*  - An exception is the field "raised" of an operation's outcome.        *)
(***************************************************************************)
EXTENDS Integers, Sequences, FiniteSets, TLC

VARIABLES
    pc,                 \* which operation ran last
    basket_matrix,      \* the binary (orders x products) matrix given to the miner
    params,             \* the arguments of the calls made so far
    frequent_itemsets,  \* outcome of find_frequent_itemsets: [raised, table]
    rules_input,        \* the itemset table handed to generate_associion_rules
    rules,              \* outcome of generate_associion_rules: [raised, table]
    selection,          \* outcome of the last selector call: [raised, table]
    rerun,              \* outcome of running the same call a second time
    df,                 \* the transaction table given to market_basket_analysis
    analysis,           \* outcome of market_basket_analysis: [raised, itemsets, rules]
    rfm_df,             \* the customer table given to score_rfm
    scored,             \* outcome of score_rfm: [raised, rows]
    row,                \* the score triple given to assign_segment
    segment,            \* the name returned by assign_segment
    order_history,      \* the order table given to the RFM pipeline
    rfm,                \* outcome of calculate_rfm: [raised, table]
    segmentation,       \* outcome of create_rfm_segmentation: [raised, table]
    monitor             \* the file monitor: the watched folders, the stored
                        \* configuration and the locals of process_once

vars == <<pc, basket_matrix, params, frequent_itemsets, rules_input, rules,
          selection, rerun, df, analysis, rfm_df, scored, row, segment,
          order_history, rfm, segmentation, monitor>>

(***************************************************************************)
(* Bounds of the model.                                                    *)
(***************************************************************************)
MaxOrders == 3
NProducts == 3
MaxLength == 3
MaxCustomers == 3
MaxRecency == 3
MaxFrequency == 2
MaxBins == 3

Products == 1..NProducts

(***************************************************************************)
(* Sequences and sets.                                                     *)
(***************************************************************************)
Range(s) == {s[i] : i \in DOMAIN s}

Min(S) == CHOOSE x \in S : \A y \in S : x <= y

Max(S) == CHOOSE x \in S : \A y \in S : y <= x

RECURSIVE SortedTuple(_)
\* tuple(sorted(S)) for a set of product names
SortedTuple(S) ==
    IF S = {} THEN <<>>
    ELSE LET m == Min(S) IN <<m>> \o SortedTuple(S \ {m})

Reverse(s) == [i \in 1..Len(s) |-> s[Len(s) + 1 - i]]

RECURSIVE Pow2(_)
Pow2(k) == IF k = 0 THEN 1 ELSE 2 * Pow2(k - 1)

RECURSIVE SumSet(_)
SumSet(S) == IF S = {} THEN 0 ELSE LET x == Min(S) IN x + SumSet(S \ {x})

(***************************************************************************)
(* IEEE 754 binary64 (Python float, numpy float64), round to nearest even. *)
(* A double is [sign, m, e]: the value sign * m * 2^e, with m a whole      *)
(* number of exactly 53 bits, or no limbs for 0.0.  Whole numbers of more  *)
(* than 31 bits are sequences of 15-bit limbs, lowest first, no leading 0.  *)
(***************************************************************************)
Base == 2^15

Precision == 53

\* The operators of the arithmetic are applied by name: X(a, b) is
\* Apply("X", <<a, b>>), and Apply, defined after the last of them, applies
\* DoX, the definition of X.  An operator met again while it is being
\* evaluated is one recursive call of Apply, so the statistics TLC keeps per
\* call site stay proportional to the size of these definitions.
RECURSIVE Apply(_, _)

Trim(a) == Apply("Trim", <<a>>)

BigOf(n) == Apply("BigOf", <<n>>)

BigToInt(a) == Apply("BigToInt", <<a>>)

BigAdd(a, b, carry) == Apply("BigAdd", <<a, b, carry>>)

BigSubLimbs(a, b, borrow) == Apply("BigSubLimbs", <<a, b, borrow>>)

BigSub(a, b) == Apply("BigSub", <<a, b>>)

BigCmp(a, b) == Apply("BigCmp", <<a, b>>)

BigMulLimb(a, j, carry) == Apply("BigMulLimb", <<a, j, carry>>)

BigMulLimbs(a, b) == Apply("BigMulLimbs", <<a, b>>)

BigMul(a, b) == Apply("BigMul", <<a, b>>)

ShiftLeft(a, n) == Apply("ShiftLeft", <<a, n>>)

ShiftRight(a, n) == Apply("ShiftRight", <<a, n>>)

Inexact(a, n) == Apply("Inexact", <<a, n>>)

Pack(sign, m, e) == Apply("Pack", <<sign, m, e>>)

RoundBits(sign, t, sticky, e) == Apply("RoundBits", <<sign, t, sticky, e>>)

Round(sign, N, e, inexact) == Apply("Round", <<sign, N, e, inexact>>)

IntToDouble(i) == Apply("IntToDouble", <<i>>)

FlInt(i) == Apply("FlInt", <<i>>)

FlMul(x, y) == Apply("FlMul", <<x, y>>)

Estimate(R, D) == Apply("Estimate", <<R, D>>)

Digit(guess, R, D) == Apply("Digit", <<guess, R, D>>)

PutDigit(Q, R, D, q) == Apply("PutDigit", <<Q, R, D, q>>)

NextDigit(Q, R, D) == Apply("NextDigit", <<Q, R, D>>)

BringDown(limb, high, D) == Apply("BringDown", <<limb, high, D>>)

DivLoop(N, D, i, s) == Apply("DivLoop", <<N, D, i, s>>)

BigDivMod(N, D) == Apply("BigDivMod", <<N, D>>)

Quotient(a, b) == Apply("Quotient", <<a, b>>)

RoundQuotient(sign, d, e) == Apply("RoundQuotient", <<sign, d, e>>)

FlDiv(x, y) == Apply("FlDiv", <<x, y>>)

AddAligned(sa, a, sb, b, e) == Apply("AddAligned", <<sa, a, sb, b, e>>)

AddOrdered(x, y) == Apply("AddOrdered", <<x, y>>)

FlAdd(x, y) == Apply("FlAdd", <<x, y>>)

FlSub(x, y) == Apply("FlSub", <<x, y>>)

MagCmp(x, y) == Apply("MagCmp", <<x, y>>)

FlCmp(x, y) == Apply("FlCmp", <<x, y>>)

FlFloor(x) == Apply("FlFloor", <<x>>)

FlIsWhole(x) == Apply("FlIsWhole", <<x>>)

FlUp(x) == Apply("FlUp", <<x>>)

FlDown(x) == Apply("FlDown", <<x>>)

FlShift(x, k) == Apply("FlShift", <<x, k>>)

Nearest(num, den) == Apply("Nearest", <<num, den>>)

NearestOf(num, den) == Apply("NearestOf", <<num, den>>)

Double(a) == Apply("Double", <<a>>)

Near(num, den, z) == Apply("Near", <<num, den, z>>)

NearQuotient(q, z) == Apply("NearQuotient", <<q, z>>)

DivDoubles(a, b) == Apply("DivDoubles", <<a, b>>)

Div(a, b) == Apply("Div", <<a, b>>)

Ge(a, b) == Apply("Ge", <<a, b>>)

Lt(a, b) == Apply("Lt", <<a, b>>)

NumEq(a, b) == Apply("NumEq", <<a, b>>)

Low(a) == IF a = <<>> THEN 0 ELSE a[1]

Rest(a) == IF a = <<>> THEN <<>> ELSE Tail(a)

RECURSIVE DoTrim(_)
DoTrim(a) == IF a # <<>> /\ a[Len(a)] = 0 THEN DoTrim(SubSeq(a, 1, Len(a) - 1)) ELSE a

RECURSIVE DoBigOf(_)
\* the limbs of a whole number n >= 0
DoBigOf(n) == IF n = 0 THEN <<>> ELSE <<n % Base>> \o DoBigOf(n \div Base)

RECURSIVE DoBigToInt(_)
DoBigToInt(a) == IF a = <<>> THEN 0 ELSE a[1] + Base * DoBigToInt(Tail(a))

RECURSIVE DoBigAdd(_, _, _)
\* a + b + carry
DoBigAdd(a, b, carry) ==
    IF a = <<>> /\ b = <<>> THEN (IF carry = 0 THEN <<>> ELSE <<carry>>)
    ELSE <<(Low(a) + Low(b) + carry) % Base>>
             \o DoBigAdd(Rest(a), Rest(b), (Low(a) + Low(b) + carry) \div Base)

RECURSIVE DoBigSubLimbs(_, _, _)
DoBigSubLimbs(a, b, borrow) ==
    IF a = <<>> THEN <<>>
    ELSE <<(a[1] - Low(b) - borrow + Base) % Base>>
             \o DoBigSubLimbs(Tail(a), Rest(b), IF a[1] - Low(b) - borrow < 0 THEN 1 ELSE 0)

\* a - b for a >= b
DoBigSub(a, b) == Trim(BigSubLimbs(a, b, 0))

RECURSIVE DoBigCmp(_, _)
\* -1, 0 or 1 as a < b, a = b, a > b
DoBigCmp(a, b) ==
    IF Len(a) # Len(b) THEN (IF Len(a) < Len(b) THEN -1 ELSE 1)
    ELSE IF a = <<>> THEN 0
    ELSE IF a[Len(a)] # b[Len(b)] THEN (IF a[Len(a)] < b[Len(b)] THEN -1 ELSE 1)
    ELSE DoBigCmp(SubSeq(a, 1, Len(a) - 1), SubSeq(b, 1, Len(b) - 1))

RECURSIVE DoBigMulLimb(_, _, _)
\* a * j + carry for a limb j
DoBigMulLimb(a, j, carry) ==
    IF a = <<>> THEN (IF carry = 0 THEN <<>> ELSE <<carry>>)
    ELSE <<(a[1] * j + carry) % Base>> \o DoBigMulLimb(Tail(a), j, (a[1] * j + carry) \div Base)

RECURSIVE DoBigMulLimbs(_, _)
DoBigMulLimbs(a, b) ==
    IF b = <<>> THEN <<>>
    ELSE BigAdd(BigMulLimb(a, b[1], 0), <<0>> \o DoBigMulLimbs(a, Tail(b)), 0)

DoBigMul(a, b) == Trim(BigMulLimbs(a, b))

DivStep(limb, high, j) ==
    <<<<(high[2] * Base + limb) \div j>> \o high[1], (high[2] * Base + limb) % j>>

RECURSIVE BigDivLimb(_, _)
\* <<limbs of a div j, a mod j>> for a limb j > 0
BigDivLimb(a, j) ==
    IF a = <<>> THEN <<<<>>, 0>> ELSE DivStep(a[1], BigDivLimb(Tail(a), j), j)

RECURSIVE BitsOf(_)
BitsOf(n) == IF n = 0 THEN 0 ELSE 1 + BitsOf(n \div 2)

\* the bit length of a
BigBits(a) == IF a = <<>> THEN 0 ELSE 15 * (Len(a) - 1) + BitsOf(a[Len(a)])

\* a * 2^n
DoShiftLeft(a, n) ==
    IF a = <<>> THEN <<>>
    ELSE [i \in 1..(n \div 15) |-> 0] \o BigMulLimb(a, Pow2(n % 15), 0)

UpperLimbs(a, k) == IF k >= Len(a) THEN <<>> ELSE SubSeq(a, k + 1, Len(a))

\* a div 2^n
DoShiftRight(a, n) ==
    Trim(BigDivLimb(UpperLimbs(a, n \div 15), Pow2(n % 15))[1])

\* a mod 2^n # 0
DoInexact(a, n) ==
    \/ \E i \in 1..(n \div 15) : i <= Len(a) /\ a[i] # 0
    \/ BigDivLimb(UpperLimbs(a, n \div 15), Pow2(n % 15))[2] # 0

FlZero == [sign |-> 1, m |-> <<>>, e |-> 0]

\* a significand that rounding carried to 2^53 is renormalised
DoPack(sign, m, e) ==
    IF BigBits(m) > Precision THEN [sign |-> sign, m |-> ShiftRight(m, 1), e |-> e + 1]
    ELSE [sign |-> sign, m |-> m, e |-> e]

\* t holds 54 bits (the last one is the rounding bit), sticky says that
\* non-zero bits were dropped below it: ties go to the even significand
DoRoundBits(sign, t, sticky, e) ==
    Pack(sign,
         BigAdd(ShiftRight(t, 1), <<>>,
                IF Low(t) % 2 = 1 /\ (sticky \/ Low(t) % 4 = 3) THEN 1 ELSE 0),
         e + 1)

\* the double nearest to sign * (N + r) * 2^e, where 0 < r < 1 if inexact
\* and r = 0 otherwise (N > 0; N has at least 55 bits when inexact)
DoRound(sign, N, e, inexact) ==
    IF BigBits(N) <= Precision
    THEN [sign |-> sign, m |-> ShiftLeft(N, Precision - BigBits(N)),
          e |-> e - (Precision - BigBits(N))]
    ELSE RoundBits(sign, ShiftRight(N, BigBits(N) - Precision - 1),
                   inexact \/ Inexact(N, BigBits(N) - Precision - 1),
                   e + BigBits(N) - Precision - 1)

DoIntToDouble(i) ==
    IF i = 0 THEN FlZero
    ELSE Round(IF i < 0 THEN -1 ELSE 1, BigOf(IF i < 0 THEN -i ELSE i), 0, FALSE)

\* the doubles of small whole numbers are computed once
SmallInts == -16..100

DoubleOfSmall == [i \in SmallInts |-> IntToDouble(i)]

\* float(i) for an int i
DoFlInt(i) == IF i \in SmallInts THEN DoubleOfSmall[i] ELSE IntToDouble(i)

FlNeg(x) == IF x.m = <<>> THEN x ELSE [x EXCEPT !.sign = -x.sign]

DoFlMul(x, y) ==
    IF x.m = <<>> \/ y.m = <<>> THEN FlZero
    ELSE Round(x.sign * y.sign, BigMul(x.m, y.m), x.e + y.e, FALSE)

\* the two limbs of R at and above the top limb of a divisor of n limbs
TopTwo(R, n) ==
    (IF Len(R) > n THEN R[n + 1] ELSE 0) * Base + (IF Len(R) >= n THEN R[n] ELSE 0)

\* at most 2 above the digit, for D with its top limb >= Base / 2
DoEstimate(R, D) ==
    IF TopTwo(R, Len(D)) \div D[Len(D)] >= Base THEN Base - 1
    ELSE TopTwo(R, Len(D)) \div D[Len(D)]

RECURSIVE DoDigit(_, _, _)
\* the largest q <= guess with q * D <= R
DoDigit(guess, R, D) ==
    IF BigCmp(Trim(BigMulLimb(D, guess, 0)), R) > 0 THEN DoDigit(guess - 1, R, D)
    ELSE guess

DoPutDigit(Q, R, D, q) == <<<<q>> \o Q, BigSub(R, Trim(BigMulLimb(D, q, 0)))>>

DoNextDigit(Q, R, D) == PutDigit(Q, R, D, Digit(Estimate(R, D), R, D))

\* the next limb of the dividend is brought down to the remainder
DoBringDown(limb, high, D) == NextDigit(high[1], Trim(<<limb>> \o high[2]), D)

RECURSIVE DoDivLoop(_, _, _, _)
\* the limbs i, i - 1, ... 1 of N brought down after s = <<quotient limbs,
\* remainder>>
DoDivLoop(N, D, i, s) ==
    IF i = 0 THEN s
    ELSE IF s[2] = <<>> /\ N[i] = 0 THEN DoDivLoop(N, D, i - 1, <<<<0>> \o s[1], <<>>>>)
    ELSE DoDivLoop(N, D, i - 1, BringDown(N[i], s, D))

\* <<limbs of N div D, N mod D>> by long division in base 2^15, one limb of
\* N at a time from the top, for D with its top limb >= Base / 2
DoBigDivMod(N, D) == DivLoop(N, D, Len(N), <<<<>>, <<>>>>)

\* floor(a * 2^56 / b) and whether a remainder is left, for a, b of 53 bits
DoQuotient(a, b) == BigDivMod(ShiftLeft(a, 63), ShiftLeft(b, 7))

DoRoundQuotient(sign, d, e) == Round(sign, Trim(d[1]), e, d[2] # <<>>)

\* x / y for y # 0
DoFlDiv(x, y) ==
    IF x.m = <<>> THEN FlZero
    ELSE RoundQuotient(x.sign * y.sign, Quotient(x.m, y.m), x.e - y.e - 56)

\* beyond this gap of exponents the smaller term is below half an ulp
MaxAlign == Precision + 11

DoAddAligned(sa, a, sb, b, e) ==
    IF sa = sb THEN Round(sa, BigAdd(a, b, 0), e, FALSE)
    ELSE IF BigCmp(a, b) = 0 THEN FlZero
    ELSE IF BigCmp(a, b) > 0 THEN Round(sa, BigSub(a, b), e, FALSE)
    ELSE Round(sb, BigSub(b, a), e, FALSE)

\* x + y for non-zero x, y with x.e >= y.e
DoAddOrdered(x, y) ==
    IF x.e - y.e > MaxAlign THEN x
    ELSE AddAligned(x.sign, ShiftLeft(x.m, x.e - y.e), y.sign, y.m, y.e)

DoFlAdd(x, y) ==
    IF x.m = <<>> THEN y
    ELSE IF y.m = <<>> THEN x
    ELSE IF x.e >= y.e THEN AddOrdered(x, y)
    ELSE AddOrdered(y, x)

DoFlSub(x, y) == FlAdd(x, FlNeg(y))

\* -1, 0 or 1 as |x| < |y|, |x| = |y|, |x| > |y| for non-zero x, y
DoMagCmp(x, y) ==
    IF x.e # y.e THEN (IF x.e < y.e THEN -1 ELSE 1) ELSE BigCmp(x.m, y.m)

\* -1, 0 or 1 as x < y, x == y, x > y
DoFlCmp(x, y) ==
    IF x.m = <<>> THEN (IF y.m = <<>> THEN 0 ELSE -y.sign)
    ELSE IF y.m = <<>> THEN x.sign
    ELSE IF x.sign # y.sign THEN x.sign
    ELSE x.sign * MagCmp(x, y)

\* int(math.floor(x)) for 0 <= x < 2^31
DoFlFloor(x) ==
    IF x.m = <<>> THEN 0
    ELSE IF x.e >= 0 THEN BigToInt(ShiftLeft(x.m, x.e))
    ELSE BigToInt(ShiftRight(x.m, -x.e))

\* x is a whole number
DoFlIsWhole(x) == x.m = <<>> \/ x.e >= 0 \/ ~Inexact(x.m, -x.e)

\* the next double away from zero, the next one toward zero (x # 0)
DoFlUp(x) == Pack(x.sign, BigAdd(x.m, <<>>, 1), x.e)

DoFlDown(x) ==
    IF BigBits(BigSub(x.m, <<1>>)) < Precision
    THEN [sign |-> x.sign, m |-> BigAdd(BigSub(x.m, <<1>>), x.m, 0), e |-> x.e - 1]
    ELSE [sign |-> x.sign, m |-> BigSub(x.m, <<1>>), e |-> x.e]

RECURSIVE DoFlShift(_, _)
\* x moved k doubles up (k > 0) or down (k < 0) the number line, x # 0
DoFlShift(x, k) ==
    IF k = 0 THEN x
    ELSE IF k > 0 THEN DoFlShift(IF x.sign > 0 THEN FlUp(x) ELSE FlDown(x), k - 1)
    ELSE DoFlShift(IF x.sign > 0 THEN FlDown(x) ELSE FlUp(x), k + 1)

(***************************************************************************)
(* The floats of tables and thresholds.  <<num, den>> names the double     *)
(* nearest to num / den: the value of count / n and of a decimal literal.  *)
(* <<num, den, k>> names the k-th double above it (below it for k < 0),    *)
(* and den = 0 is NaN.  Arithmetic and comparisons are those of the        *)
(* doubles named.                                                          *)
(***************************************************************************)
NaN == <<0, 0>>

IsNaN(a) == a[2] = 0

\* a / b for a Python int or numpy integer a and the Python int b; the
\* caller decides what b = 0 means (numpy: NaN, Python int: ZeroDivisionError)
Frac(a, b) == <<a, b>>

Zero == <<0, 1>>

\* the double nearest to num / den
DoNearest(num, den) == FlDiv(FlInt(num), FlInt(den))

\* the quotients of small numbers and the thresholds 0.01 and 0.005 are
\* computed once
Small == 0..16

Hundredths == {<<1, 100>>, <<1, 200>>}

Tabulated == (Small \X (Small \ {0})) \cup Hundredths

NearestOfSmall ==
    [p \in Small \X (Small \ {0}) |-> Nearest(p[1], p[2])]
        @@ [p \in Hundredths |-> Nearest(p[1], p[2])]

DoNearestOf(num, den) ==
    IF <<num, den>> \in Tabulated THEN NearestOfSmall[<<num, den>>] ELSE Nearest(num, den)

\* the double that a (not NaN) names
DoDouble(a) ==
    IF Len(a) = 3 THEN FlShift(NearestOf(a[1], a[2]), a[3]) ELSE NearestOf(a[1], a[2])

RECURSIVE GCD(_, _)
GCD(a, b) == IF b = 0 THEN a ELSE GCD(b, a % b)

\* how far a quotient of doubles lies from the nearest double of the
\* quotient of the numbers they were rounded from
Offsets == -4..4

\* the name of the double z, which lies next to num / den
DoNear(num, den, z) ==
    IF z = NearestOf(num, den) THEN <<num, den>>
    ELSE <<num, den, CHOOSE k \in Offsets : FlShift(NearestOf(num, den), k) = z>>

\* num / den in lowest terms, for num >= 0 and den > 0
Lowest(num, den, g) == <<num \div g, den \div g>>

DoNearQuotient(q, z) == Near(q[1], q[2], z)

\* a / b for numbers a and b # 0: the quotient of the doubles they name
DoDivDoubles(a, b) ==
    NearQuotient(Lowest(a[1] * b[2], a[2] * b[1], GCD(a[1] * b[2], a[2] * b[1])),
                 FlDiv(Double(a), Double(b)))

\* the quotients of the fractions of small counts are computed once
Counts == 0..4

DivOfCounts ==
    [a1 \in Counts, a2 \in Counts \ {0}, b1 \in Counts \ {0}, b2 \in Counts \ {0} |->
        DivDoubles(<<a1, a2>>, <<b1, b2>>)]

\* float / float; the code divides by no zero
DoDiv(a, b) ==
    IF IsNaN(a) \/ IsNaN(b) \/ b[1] = 0 THEN NaN
    ELSE IF /\ Len(a) = 2 /\ Len(b) = 2
            /\ a[1] \in Counts /\ a[2] \in Counts /\ b[1] \in Counts /\ b[2] \in Counts
         THEN DivOfCounts[a[1], a[2], b[1], b[2]]
    ELSE DivDoubles(a, b)

\* a >= b (False when either side is NaN)
DoGe(a, b) == ~IsNaN(a) /\ ~IsNaN(b) /\ FlCmp(Double(a), Double(b)) >= 0

\* a < b (False when either side is NaN)
DoLt(a, b) == ~IsNaN(a) /\ ~IsNaN(b) /\ FlCmp(Double(a), Double(b)) < 0

\* a == b (False when either side is NaN)
DoNumEq(a, b) == ~IsNaN(a) /\ ~IsNaN(b) /\ FlCmp(Double(a), Double(b)) = 0

(***************************************************************************)
(* pandas tables.                                                          *)
(***************************************************************************)
\* pd.DataFrame([]) and pd.DataFrame(): no columns, no rows
EmptyFrame == [columns |-> {}, rows |-> <<>>]

Returned(t) == [raised |-> "none", table |-> t]

Raised(e) == [raised |-> e, table |-> EmptyFrame]

NotRun == [raised |-> "notrun", table |-> EmptyFrame]

(***************************************************************************)
(* Tables as objects.  While a call runs, heap is the sequence of the      *)
(* tables that exist and a name of the program holds the position of one:  *)
(* the caller's table is an object of the heap, and what that object holds *)
(* when the call ends is what the caller finds in its table.               *)
(***************************************************************************)
\* a table the call makes: pd.DataFrame(...), a selection df[mask] or
\* df[[columns]], sort_values(), head(), groupby().agg()
New(heap, value) == [heap |-> Append(heap, value), ref |-> Len(heap) + 1]

\* `df = rfm_df` in place of `df = rfm_df.copy()`: another name of the object
CopyAliased(heap, ref) == [heap |-> heap, ref |-> ref]

\* df.copy(): a new object that holds what the object ref holds
Copy(heap, ref) == New(heap, heap[ref])

\* df[column] = ...: the object ref itself holds the new value
SetItem(heap, ref, value) == [heap EXCEPT ![ref] = value]

\* df[mask].copy(): the selection is a table the call makes, and the copy
\* is taken of it
SelectionCopy(heap, selected) == Copy(Append(heap, selected), Len(heap) + 1)

\* the call ends: the heap it leaves, the object it returns (0 when it
\* raises) and its outcome
Ends(heap, ref, outcome) == [heap |-> heap, ref |-> ref, result |-> outcome]

\* the call returns a table it has just made
Makes(heap, table, outcome) == Ends(Append(heap, table), Len(heap) + 1, outcome)

\* a call whose statements only read the table they are given: what it
\* returns is a table it made, and the heap holds nothing else new
ReadOnlyCall(heap, outcome) ==
    IF outcome.raised = "none" THEN Makes(heap, outcome.table, outcome)
    ELSE Ends(heap, 0, outcome)

\* a call under way: the heap, the object its name df holds, and the
\* exception that ended it ("none" while it runs)
Running(copied) == [heap |-> copied.heap, ref |-> copied.ref, raised |-> "none"]

RECURSIVE InsertDesc(_, _, _)
\* r put into s, which is in descending key order, after the rows whose key
\* is >= key(r): the position a stable descending sort gives it; a row with
\* a NaN key goes last (na_position='last')
InsertDesc(s, r, key) ==
    IF s = <<>> THEN <<r>>
    ELSE IF IsNaN(r[key]) THEN s \o <<r>>
    ELSE IF Ge(Head(s)[key], r[key]) THEN <<Head(s)>> \o InsertDesc(Tail(s), r, key)
    ELSE <<r>> \o s

RECURSIVE SortValuesDesc(_, _)
\* df.sort_values(key, ascending=False).reset_index(drop=True); rows with
\* equal keys keep their order, rows with a NaN key come last in their order
SortValuesDesc(s, key) ==
    IF s = <<>> THEN <<>>
    ELSE InsertDesc(SortValuesDesc(SubSeq(s, 1, Len(s) - 1), key), s[Len(s)], key)

\* df.sort_values(key, ascending=False) with the default kind='quicksort',
\* which does not promise an order for rows with equal keys: numpy builds
\* that sort short arrays by insertion keep their order, vectorised builds
\* (and any build on long arrays) do not.  Two of the orders the ties can
\* take stand for them all: kept, and reversed.  The rows with a NaN key are
\* set apart before the sort and appended in their order (nargsort).
sort_values(s, key, ties) ==
    IF ties = "kept" THEN SortValuesDesc(s, key)
    ELSE SortValuesDesc(Reverse(SelectSeq(s, LAMBDA r : ~IsNaN(r[key])))
                            \o SelectSeq(s, LAMBDA r : IsNaN(r[key])), key)

\* df.head(n)
HeadRows(s, n) == SubSeq(s, 1, IF n < Len(s) THEN n ELSE Len(s))

(***************************************************************************)
(* find_frequent_itemsets                                                  *)
(***************************************************************************)
\* len(basket_matrix)
NTransactions(m) == Len(m.rows)

\* mask.sum() for mask = basket_matrix[list(itemset)].any(axis=1)
CountAny(m, itemset) ==
    Cardinality({i \in DOMAIN m.rows : Range(itemset) \cap m.rows[i] # {}})

\* mask.sum() for mask = basket_matrix[list(itemset)].all(axis=1);
\* for a single column this is basket_matrix[col].sum()
CountAll(m, itemset) ==
    Cardinality({i \in DOMAIN m.rows : Range(itemset) \subseteq m.rows[i]})

\* count / n_transactions: numpy gives NaN for 0 / 0
Support(m, itemset) == Frac(CountAll(m, itemset), NTransactions(m))

\* the branch `if support >= min_support`
Keeps(support, min_support) == Ge(support, min_support)

\* the sum of an empty object-dtype column is the Python int 0, and the
\* Python division 0 / 0 raises; a numeric column sums to a numpy scalar,
\* whose division by zero is NaN
SingleRaises(m) ==
    m.columns # {} /\ NTransactions(m) = 0 /\ m.dtype = "object"

RECURSIVE SelectKept(_, _, _)
\* the (itemset, support) pairs of `order` that pass the threshold, in order
SelectKept(m, order, min_support) ==
    IF order = <<>> THEN <<>>
    ELSE LET s == Support(m, Head(order))
             rest == SelectKept(m, Tail(order), min_support)
         IN IF Keeps(s, min_support) THEN <<<<Head(order), s>>>> \o rest ELSE rest

\* single_items: one pass over basket_matrix.columns, in column order
SingleItems(m, min_support) ==
    LET columns == SortedTuple(m.columns)
    IN SelectKept(m, [i \in DOMAIN columns |-> <<columns[i]>>], min_support)

Keys(pairs) == [i \in 1..Len(pairs) |-> pairs[i][1]]

\* candidates from neighbouring itemsets only (current_itemsets[i+1:i+2])
CandidatesAdjacent(current, length) ==
    {SortedTuple(Range(current[i]) \cup Range(current[i + 1])) :
        i \in {k \in 1..(Len(current) - 1) :
                 Cardinality(Range(current[k]) \cup Range(current[k + 1])) = length}}

\* candidate_itemsets: the unions of two itemsets of the previous level that
\* have exactly `length` members
Candidates(current, length) ==
    LET unions == {Range(current[p[1]]) \cup Range(current[p[2]]) :
                      p \in {q \in (DOMAIN current) \X (DOMAIN current) : q[1] < q[2]}}
    IN {SortedTuple(u) : u \in {v \in unions : Cardinality(v) = length}}

\* a number that identifies an itemset (used to fix a base order of a set)
Code(itemset) == SumSet({Pow2(x - 1) : x \in Range(itemset)})

RECURSIVE ByFirst(_)
\* the second members of the pairs P, in ascending order of the first
ByFirst(P) ==
    IF P = {} THEN <<>>
    ELSE LET x == CHOOSE p \in P : \A q \in P : p[1] <= q[1]
         IN <<x[2]>> \o ByFirst(P \ {x})

\* the itemsets of S in ascending order of their code
ByCode(S) == ByFirst({<<Code(y), y>> : y \in S})

\* the slots a hash seed ranks: three, the largest number of candidates of
\* one level that three products give
HashSlots == 1..3

RECURSIVE ByRank(_, _, _)
\* the positions P of `base` in ascending rank; the rank of position i is
\* the seed's rank of its slot, then i
ByRank(base, P, seed) ==
    IF P = {} THEN <<>>
    ELSE LET slot(i) == ((i - 1) % Cardinality(HashSlots)) + 1
             key(i) == seed[slot(i)] * (Len(base) + 1) + i
             x == CHOOSE i \in P : \A j \in P : key(i) <= key(j)
         IN <<base[x]>> \o ByRank(base, P \ {x}, seed)

\* `for itemset in candidate_itemsets`: the order in which a Python set of
\* tuples of str is walked depends on the process's hash seed (str hashes
\* are salted with PYTHONHASHSEED).  A seed is a ranking of the slots: a set
\* of up to three itemsets is walked in any of its orders
SetOrder(S, seed) == ByRank(ByCode(S), 1..Cardinality(S), seed)

RECURSIVE Levels(_, _, _, _, _, _)
\* the loop `for length in range(2, max_length + 1)`; acc is the dict
\* frequent_itemsets in insertion order
Levels(m, min_support, max_length, seed, length, st) ==
    IF length > max_length THEN st.acc
    ELSE LET new_itemsets ==
                 SelectKept(m, SetOrder(Candidates(st.current, length), seed), min_support)
         IN IF new_itemsets = <<>> THEN st.acc
            ELSE Levels(m, min_support, max_length, seed, length + 1,
                        [acc |-> st.acc \o new_itemsets, current |-> Keys(new_itemsets)])

\* the dict without frequent_itemsets.update(single_items): the single items
\* only seed the loop
FrequentDictWithoutSingles(m, min_support, max_length, seed) ==
    LET single_items == SingleItems(m, min_support)
    IN Levels(m, min_support, max_length, seed, 2,
              [acc |-> <<>>, current |-> Keys(single_items)])

\* the dict frequent_itemsets when the loop ends
FrequentDict(m, min_support, max_length, seed) ==
    LET single_items == SingleItems(m, min_support)
    IN Levels(m, min_support, max_length, seed, 2,
              [acc |-> single_items, current |-> Keys(single_items)])

\* pd.DataFrame([...]), the length column, sort_values('support')
ItemsetFrame(dict, ties) ==
    IF dict = <<>> THEN EmptyFrame
    ELSE [columns |-> {"itemsets", "support", "length"},
          rows |-> sort_values(
                       [i \in 1..Len(dict) |->
                           [itemsets |-> dict[i][1], support |-> dict[i][2],
                            length |-> Len(dict[i][1])]],
                       "support", ties)]

find_frequent_itemsets(m, min_support, max_length, seed, ties) ==
    IF SingleRaises(m) THEN Raised("ZeroDivisionError")
    ELSE Returned(ItemsetFrame(FrequentDict(m, min_support, max_length, seed), ties))

\* find_frequent_itemsets called on the object m (basket_matrix) of the heap: the
\* matrix is read (len, columns, column sums); result = pd.DataFrame(...) and
\* result['length'] = ... concern the table the call made
FindFrequentItemsetsCall(heap, m, min_support, max_length, seed, ties) ==
    ReadOnlyCall(heap, find_frequent_itemsets(heap[m], min_support,
                                              max_length, seed, ties))

(***************************************************************************)
(* generate_associion_rules                                                *)
(***************************************************************************)
RECURSIVE Combinations(_, _)
\* list(itertools.combinations(t, i)), in the order itertools yields them
Combinations(t, i) ==
    IF i = 0 THEN << <<>> >>
    ELSE IF Len(t) < i THEN <<>>
    ELSE LET with == Combinations(Tail(t), i - 1)
         IN [k \in 1..Len(with) |-> <<Head(t)>> \o with[k]] \o Combinations(Tail(t), i)

RECURSIVE Concat(_)
\* the concatenation of a sequence of sequences
Concat(ss) == IF ss = <<>> THEN <<>> ELSE Head(ss) \o Concat(Tail(ss))

\* the antecedents tried for one itemset: for i in range(1, len(itemset)):
\* for antecedent in combinations(itemset, i)
Antecedents(itemset) ==
    Concat([i \in 1..(Len(itemset) - 1) |-> Combinations(itemset, i)])

\* consequent = tuple(sorted(set(itemset) - set(antecedent)))
Consequent(itemset, antecedent) == SortedTuple(Range(itemset) \ Range(antecedent))

\* support_dict.get(key, 0); a key met twice keeps the last row's support
SupportGet(t, key) ==
    LET hits == {i \in DOMAIN t.rows : t.rows[i].itemsets = key}
    IN IF hits = {} THEN Zero
       ELSE t.rows[CHOOSE i \in hits : \A j \in hits : j <= i].support

\* confidence = antecedent_support / itemset_support
ConfidenceInverted(itemset_support, antecedent_support) ==
    Div(antecedent_support, itemset_support)

\* confidence = itemset_support / antecedent_support
Confidence(itemset_support, antecedent_support) ==
    Div(itemset_support, antecedent_support)

\* lift = confidence / consequent_support if consequent_support > 0 else 0
Lift(confidence, consequent_support) ==
    IF Lt(Zero, consequent_support) THEN Div(confidence, consequent_support) ELSE Zero

\* neither `if confidence < min_confidence: continue` nor
\* `if lift < min_lift: continue` is taken
Passes(confidence, lift, min_confidence, min_lift) ==
    ~Lt(confidence, min_confidence) /\ ~Lt(lift, min_lift)

\* the body of the innermost loop for one (itemset row, antecedent): the rule
\* record appended, or nothing
SplitRule(t, r, antecedent, min_confidence, min_lift) ==
    LET consequent == Consequent(r.itemsets, antecedent)
        antecedent_support == SupportGet(t, antecedent)
        consequent_support == SupportGet(t, consequent)
        confidence == Confidence(r.support, antecedent_support)
        lift == Lift(confidence, consequent_support)
    IN IF consequent = <<>> THEN <<>>
       ELSE IF NumEq(antecedent_support, Zero) THEN <<>>
       ELSE IF ~Passes(confidence, lift, min_confidence, min_lift) THEN <<>>
       ELSE << [antecedents |-> antecedent,
                consequents |-> consequent,
                antecedent_support |-> antecedent_support,
                consequent_support |-> consequent_support,
                support |-> r.support,
                confidence |-> confidence,
                lift |-> lift] >>

\* the rules appended for one row of multi_itemsets
RowRules(t, r, min_confidence, min_lift) ==
    LET ants == Antecedents(r.itemsets)
    IN Concat([k \in 1..Len(ants) |-> SplitRule(t, r, ants[k], min_confidence, min_lift)])

\* frequent_itemsets[frequent_itemsets['length'] >= 2], in table order
MultiItemsets(t) == SelectSeq(t.rows, LAMBDA r : r.length >= 2)

RuleColumns ==
    {"antecedents", "consequents", "antecedent_support", "consequent_support",
     "support", "confidence", "lift"}

\* the list `rules` when the loops end
RuleList(t, min_confidence, min_lift) ==
    LET multi == MultiItemsets(t)
    IN Concat([k \in 1..Len(multi) |-> RowRules(t, multi[k], min_confidence, min_lift)])

generate_associion_rules(t, min_confidence, min_lift, ties) ==
    IF "length" \notin t.columns THEN Raised("KeyError")
    ELSE LET rs == RuleList(t, min_confidence, min_lift)
         IN IF rs = <<>> THEN Returned(EmptyFrame)
            ELSE Returned([columns |-> RuleColumns,
                           rows |-> sort_values(rs, "lift", ties)])

\* generate_associion_rules called on the object t (frequent_itemsets) of the
\* heap: its rows are read into support_dict and multi_itemsets, the rules
\* are collected in a list and returned in a new table
GenerateAssociionRulesCall(heap, t, min_confidence, min_lift, ties) ==
    ReadOnlyCall(heap, generate_associion_rules(heap[t], min_confidence,
                                                min_lift, ties))

(***************************************************************************)
(* get_product_recommendations, get_bundle_opportunities                   *)
(***************************************************************************)
\* the recommendation records of one rule row, one per consequent product
RowRecommendations(r) ==
    [k \in 1..Len(r.consequents) |->
        [product |-> r.consequents[k], confidence |-> r.confidence,
         lift |-> r.lift, support |-> r.support]]

\* rules[rules['antecedents'].apply(lambda x: product_name in x)]
RelevantRules(rs, product_name) ==
    [rs EXCEPT !.rows = SelectSeq(rs.rows, LAMBDA r : product_name \in Range(r.antecedents))]

\* the list `recommendations` read from the rows of relevant_rules
Recommendations(relevant_rules) ==
    Concat([k \in 1..Len(relevant_rules) |-> RowRecommendations(relevant_rules[k])])

\* rec_df.sort_values('lift', ascending=False).head(top_n)
RecDf(recommendations, top_n, ties) ==
    [columns |-> {"product", "confidence", "lift", "support"},
     rows |-> HeadRows(sort_values(recommendations, "lift", ties), top_n)]

\* return rec_df
RecDfReturned(heap, rec_df) == Makes(heap, rec_df, Returned(rec_df))

\* the statements after relevant_rules is bound: it is only read
RecommendationsFrom(relevant_rules, top_n, ties) ==
    IF relevant_rules.heap[relevant_rules.ref].rows = <<>>
    THEN Makes(relevant_rules.heap, EmptyFrame, Returned(EmptyFrame))
    ELSE RecDfReturned(relevant_rules.heap,
                       RecDf(Recommendations(relevant_rules.heap[relevant_rules.ref].rows),
                             top_n, ties))

\* get_product_recommendations called on the object rs (rules) of the heap
GetProductRecommendationsCall(heap, rs, product_name, top_n, ties) ==
    IF "antecedents" \notin heap[rs].columns THEN Ends(heap, 0, Raised("KeyError"))
    ELSE RecommendationsFrom(SelectionCopy(heap, RelevantRules(heap[rs], product_name)),
                             top_n, ties)

get_product_recommendations(rs, product_name, top_n, ties) ==
    GetProductRecommendationsCall(<<rs>>, 1, product_name, top_n, ties).result

\* the label f"{', '.join(antecedents)} -> {', '.join(consequents)}" of a
\* row, kept as the pair of the joined names
BundleLabel(r) == <<r.antecedents, r.consequents>>

\* the columns of a row of strong_rules kept for display
BundleRow(r) ==
    [bundle |-> r.bundle,
     antecedents |-> r.antecedents, consequents |-> r.consequents,
     support |-> r.support, confidence |-> r.confidence, lift |-> r.lift]

\* rules[(rules['lift'] >= min_lift) & (rules['confidence'] >= min_confidence)]
SelectStrong(rs, min_lift, min_confidence) ==
    [rs EXCEPT !.rows = SelectSeq(rs.rows,
                            LAMBDA r : Ge(r.lift, min_lift)
                                          /\ Ge(r.confidence, min_confidence))]

\* strong_rules['bundle'] = strong_rules.apply(...): the column is written
\* into the object strong_rules
WithBundle(heap, strong_rules) ==
    SetItem(heap, strong_rules,
            [columns |-> heap[strong_rules].columns \cup {"bundle"},
             rows |-> [k \in DOMAIN heap[strong_rules].rows |->
                          ("bundle" :> BundleLabel(heap[strong_rules].rows[k]))
                              @@ heap[strong_rules].rows[k]]])

\* strong_rules[['bundle', 'antecedents', 'consequents', 'support',
\* 'confidence', 'lift']].head(top_n)
BundleTable(t, top_n) ==
    [columns |-> {"bundle", "antecedents", "consequents", "support", "confidence",
                  "lift"},
     rows |-> HeadRows([k \in DOMAIN t.rows |-> BundleRow(t.rows[k])], top_n)]

\* the return statement: the display columns of the object strong_rules
BundlesReturned(heap, strong_rules, top_n) ==
    Makes(heap, BundleTable(heap[strong_rules], top_n),
          Returned(BundleTable(heap[strong_rules], top_n)))

\* the statements after strong_rules is bound
BundlesFrom(strong_rules, top_n) ==
    IF strong_rules.heap[strong_rules.ref].rows = <<>>
    THEN Makes(strong_rules.heap, EmptyFrame, Returned(EmptyFrame))
    ELSE BundlesReturned(WithBundle(strong_rules.heap, strong_rules.ref),
                         strong_rules.ref, top_n)

\* get_bundle_opportunities called on the object rs (rules) of the heap
GetBundleOpportunitiesCall(heap, rs, min_lift, min_confidence, top_n) ==
    IF "lift" \notin heap[rs].columns \/ "confidence" \notin heap[rs].columns
    THEN Ends(heap, 0, Raised("KeyError"))
    ELSE BundlesFrom(SelectionCopy(heap, SelectStrong(heap[rs], min_lift, min_confidence)),
                     top_n)

get_bundle_opportunities(rs, min_lift, min_confidence, top_n) ==
    GetBundleOpportunitiesCall(<<rs>>, 1, min_lift, min_confidence, top_n).result

(***************************************************************************)
(* create_basket_matrix, market_basket_analysis                            *)
(***************************************************************************)
\* df.groupby([order, product])[quantity].first() for one (order, product)
QuantityFirst(d, o, p) ==
    LET hits == {i \in DOMAIN d : d[i].Order_ID = o /\ d[i].Product_Name = p}
    IN IF hits = {} THEN 0 ELSE d[Min(hits)].Quantity

\* df.groupby([order, product])[quantity].sum() for one (order, product)
RECURSIVE QuantitySum(_, _, _)
QuantitySum(d, o, p) ==
    IF d = <<>> THEN 0
    ELSE (IF Head(d).Order_ID = o /\ Head(d).Product_Name = p
          THEN Head(d).Quantity ELSE 0) + QuantitySum(Tail(d), o, p)

\* the (order, product) groups of df
HasGroup(d, o, p) == \E i \in DOMAIN d : d[i].Order_ID = o /\ d[i].Product_Name = p

\* .unstack().fillna(0) and applymap(1 if x > 0 else 0): one row per order id
\* of df, one column per product of df, both sorted; the row of an order is
\* kept as the set of its columns that hold 1
create_basket_matrix(d) ==
    LET orders == SortedTuple({d[i].Order_ID : i \in DOMAIN d})
        products == {d[i].Product_Name : i \in DOMAIN d}
    IN [columns |-> products,
        rows |-> [k \in 1..Len(orders) |->
                     {p \in products :
                         HasGroup(d, orders[k], p) /\ QuantitySum(d, orders[k], p) > 0}],
        dtype |-> IF d = <<>> THEN "object" ELSE "int64"]

\* create_basket_matrix called on the object d (df) of the heap: groupby, sum,
\* unstack, fillna and applymap each return a new table
CreateBasketMatrixCall(heap, d) ==
    Makes(heap, create_basket_matrix(heap[d]), Returned(create_basket_matrix(heap[d])))

\* the pair (frequent_itemsets, rules) or the exception that ends the call
market_basket_analysis(d, min_support, min_confidence, min_lift, max_length, seed, ties) ==
    LET basket == create_basket_matrix(d)
        fi == find_frequent_itemsets(basket, min_support, max_length, seed, ties)
        rl == generate_associion_rules(fi.table, min_confidence, min_lift, ties)
    IN IF fi.raised # "none" THEN [raised |-> fi.raised, itemsets |-> EmptyFrame,
                                   rules |-> EmptyFrame]
       ELSE IF rl.raised # "none" THEN [raised |-> rl.raised, itemsets |-> EmptyFrame,
                                        rules |-> EmptyFrame]
       ELSE [raised |-> "none", itemsets |-> fi.table, rules |-> rl.table]

(***************************************************************************)
(* Inputs.                                                                 *)
(***************************************************************************)
\* min_support: 0.01 (the default), 0.5, 1.0
MinSupports == {<<1, 100>>, <<1, 2>>, <<1, 1>>}

\* min_confidence: 0.5, 1.0
MinConfidences == {<<1, 2>>, <<1, 1>>}

\* min_lift: 0, 1.0 (the default), 1.5
MinLifts == {<<0, 1>>, <<1, 1>>, <<3, 2>>}

\* the hash seeds of a process: every ranking of the slots
Seeds == Permutations(HashSlots)

\* what the build's quicksort does to rows with equal keys
Ties == {"kept", "reversed"}

\* the environments of a process: its hash seed and its build, independent
\* of each other
Environments == {[seed |-> seed, ties |-> ties] : seed \in Seeds, ties \in Ties}

SetCode(S) == SumSet({Pow2(x - 1) : x \in S})

\* the row lists of the matrices: up to MaxOrders orders, each a set of
\* products.  Column sums do not depend on the order of the rows, so the rows
\* are listed in one canonical order.
RECURSIVE RowListsOf(_)
RowListsOf(n) ==
    IF n = 0 THEN {<<>>}
    ELSE UNION {{Append(r, b) :
                    b \in {c \in SUBSET Products :
                              n = 1 \/ SetCode(r[n - 1]) <= SetCode(c)}} :
                r \in RowListsOf(n - 1)}

RowLists == UNION {RowListsOf(n) : n \in 0..MaxOrders}

\* the matrices given to find_frequent_itemsets: every product is a column;
\* a matrix without rows may hold object columns (pd.DataFrame(columns=...))
\* or numeric ones (a filtered matrix), or no column at all
MatrixInputs ==
    {[columns |-> Products, rows |-> r, dtype |-> "int64"] : r \in RowLists}
    \cup {[columns |-> Products, rows |-> <<>>, dtype |-> "object"],
          [columns |-> {}, rows |-> <<>>, dtype |-> "object"]}

NoParams ==
    [min_support |-> Zero, max_length |-> 0, ties |-> "kept",
     min_confidence |-> Zero, min_lift |-> Zero, dropped |-> 0,
     product_name |-> 0, top_n |-> 0, n_bins |-> 0, reference_date |-> 0,
     include_platform |-> FALSE, arrangement |-> "generated",
     bundle_min_lift |-> Zero, bundle_min_confidence |-> Zero,
     given |-> 0, returned |-> 0]

NoAnalysis == [raised |-> "notrun", itemsets |-> EmptyFrame, rules |-> EmptyFrame]

NoMatrix == [columns |-> {}, rows |-> <<>>, dtype |-> "object"]

\* the state of the variables an operation has not touched yet
IdleBasket ==
    /\ params = NoParams
    /\ frequent_itemsets = NotRun
    /\ rules_input = EmptyFrame
    /\ rules = NotRun
    /\ selection = NotRun
    /\ rerun = NoAnalysis
    /\ analysis = NoAnalysis

\* the monitor before its first call: nothing watched, the default
\* configuration of load_config, no scan taken.  mode is the entry point of
\* the call under way or last made; folders, at, file_hash and files_info
\* are the position and the locals of scan_folders; after and steady
\* remember how the call began: what the process_once before it reported
\* when its pipeline failed, and whether the folders were left alone since
NoReport ==
    [failed |-> FALSE, current_files |-> <<>>, new_files |-> {}, modified_files |-> {}]

NoMonitor ==
    [disk |-> <<>>,
     config |-> [file_hashes |-> <<>>, last_run |-> <<"None">>],
     current_files |-> <<>>,
     new_files |-> {},
     modified_files |-> {},
     mode |-> "none",
     folders |-> <<>>,
     at |-> "idle",
     file_hash |-> "None",
     files_info |-> <<>>,
     after |-> NoReport,
     steady |-> TRUE]

IdleMonitor == monitor = NoMonitor

IdleRfm ==
    /\ rfm_df = <<>>
    /\ scored = [raised |-> "notrun", rows |-> <<>>]
    /\ row = [R_Score |-> 0, F_Score |-> 0, M_Score |-> 0]
    /\ segment = "notrun"
    /\ order_history = EmptyFrame
    /\ rfm = NotRun
    /\ segmentation = NotRun

rfmVars == <<rfm_df, scored, row, segment, order_history, rfm, segmentation>>

(***************************************************************************)
(* The miner called on a basket matrix.                                    *)
(***************************************************************************)
InitMiner ==
    /\ pc = "start"
    /\ basket_matrix \in MatrixInputs
    /\ df = <<>>
    /\ IdleBasket
    /\ IdleMonitor
    /\ IdleRfm

\* a call of find_frequent_itemsets on the matrix, its arguments drawn from
\* the given sets
FindWith(supports, lengths, environments) ==
    /\ pc = "start"
    /\ \E ms \in supports, ml \in lengths, env \in environments :
          \E run \in {FindFrequentItemsetsCall(<<basket_matrix>>, 1, ms, ml, env.seed,
                                              env.ties)} :
             /\ frequent_itemsets' = run.result
             /\ basket_matrix' = run.heap[1]
             /\ params' = [params EXCEPT !.min_support = ms, !.max_length = ml,
                                         !.ties = env.ties,
                                         !.given = 1, !.returned = run.ref]
    /\ pc' = "mined"
    /\ UNCHANGED <<rules_input, rules, selection, rerun, df, analysis>>
    /\ UNCHANGED rfmVars
    /\ UNCHANGED monitor

FindFrequentItemsets == FindWith(MinSupports, 1..MaxLength, Environments)

NextMiner == FindFrequentItemsets

SpecMiner == InitMiner /\ [][NextMiner]_vars

(***************************************************************************)
(* Claims about find_frequent_itemsets (checked under SpecMiner).          *)
(***************************************************************************)
\* the number of orders that contain every product of S, counted from the matrix
OrdersContaining(m, S) == Cardinality({i \in DOMAIN m.rows : S \subseteq m.rows[i]})

\* S meets min_support: orders containing S / total orders >= min_support
IsFrequent(m, S, min_support) ==
    OrdersContaining(m, S) * min_support[2] >= min_support[1] * Len(m.rows)

TableRows(o) == Range(o.table.rows)

MinerReturned == pc = "mined" /\ frequent_itemsets.raised = "none"

\* C1: for a matrix with at least one order, the returned table holds an
\* itemset of size 1..max_length exactly when the fraction of orders that
\* contain all its products is >= min_support (as exhaustive enumeration
\* finds), each itemset once, and each reported support is
\* (orders containing the itemset) / (total orders).
C1_MinerIsExact ==
    (MinerReturned /\ Len(basket_matrix.rows) >= 1) =>
        /\ \A S \in (SUBSET basket_matrix.columns) \ {{}} :
              ((Cardinality(S) <= params.max_length
                  /\ IsFrequent(basket_matrix, S, params.min_support))
               <=> (\E r \in TableRows(frequent_itemsets) : r.itemsets = SortedTuple(S)))
        /\ \A r \in TableRows(frequent_itemsets) :
              /\ r.length = Len(r.itemsets)
              /\ r.itemsets = SortedTuple(Range(r.itemsets))
              /\ r.support[2] # 0
              /\ r.support[1] * Len(basket_matrix.rows)
                   = OrdersContaining(basket_matrix, Range(r.itemsets)) * r.support[2]
        /\ \A i, j \in DOMAIN frequent_itemsets.table.rows :
              frequent_itemsets.table.rows[i].itemsets
                  = frequent_itemsets.table.rows[j].itemsets => i = j

\* a run in which an itemset was found by pairwise union while another
\* itemset within max_length was left out as infrequent
C1_Witness ==
    /\ MinerReturned
    /\ Len(basket_matrix.rows) >= 1
    /\ \E r \in TableRows(frequent_itemsets) : r.length >= 2
    /\ \E S \in (SUBSET basket_matrix.columns) \ {{}} :
          /\ Cardinality(S) <= params.max_length
          /\ OrdersContaining(basket_matrix, S) >= 1
          /\ ~IsFrequent(basket_matrix, S, params.min_support)

\* C2: of two itemsets in the returned table, one a proper subset of the
\* other, the subset has support >= the superset's.
C2_AntiMonotone ==
    MinerReturned =>
        \A r1, r2 \in TableRows(frequent_itemsets) :
            (Range(r1.itemsets) \subseteq Range(r2.itemsets)
                /\ Range(r1.itemsets) # Range(r2.itemsets))
            => Ge(r1.support, r2.support)

\* a table holding a subset with strictly larger support than its superset
C2_Witness ==
    /\ MinerReturned
    /\ \E r1, r2 \in TableRows(frequent_itemsets) :
          /\ Range(r1.itemsets) \subseteq Range(r2.itemsets)
          /\ Range(r1.itemsets) # Range(r2.itemsets)
          /\ ~Ge(r2.support, r1.support)

\* C9: on a matrix with zero orders find_frequent_itemsets returns an empty
\* table and raises nothing.
C9_ZeroOrdersEmptyNoRaise ==
    (pc = "mined" /\ Len(basket_matrix.rows) = 0) =>
        /\ frequent_itemsets.raised = "none"
        /\ frequent_itemsets.table.rows = <<>>

(***************************************************************************)
(* The rule generator called on an itemset table.                          *)
(***************************************************************************)
\* the table a caller passes on: the miner's table (p = 0), or that table
\* without the row of the single product p
WithoutSingle(t, p) ==
    [t EXCEPT !.rows = SelectSeq(t.rows, LAMBDA r : r.itemsets # <<p>>)]

\* the miner run to give the rule generator its input: the default support, so
\* that every itemset bought at least once is in the table, full length, in
\* any environment
MineForRules ==
    FindWith({<<1, 100>>}, {MaxLength}, Environments)

\* the tables the caller holds when it calls the rule generator: the miner's
\* table and, when a row is dropped (p # 0), the table without that row
HeldForRules(t, p) == IF p = 0 THEN <<t>> ELSE <<t, WithoutSingle(t, p)>>

\* a call of generate_associion_rules on the miner's table, its thresholds
\* drawn from the given sets; drops: 0 for the table as the miner returned it,
\* p for the table without the row of the single product p
GenerateWith(confidences, lifts, drops) ==
    /\ pc = "mined"
    /\ frequent_itemsets.raised = "none"
    /\ \E mc \in confidences, ml \in lifts, p \in drops :
          \E held \in {HeldForRules(frequent_itemsets.table, p)} :
          \E run \in {GenerateAssociionRulesCall(held, Len(held), mc, ml, params.ties)} :
             /\ rules_input' = run.heap[Len(held)]
             /\ frequent_itemsets' = [frequent_itemsets EXCEPT !.table = run.heap[1]]
             /\ rules' = run.result
             /\ params' = [params EXCEPT !.min_confidence = mc, !.min_lift = ml,
                                         !.dropped = p,
                                         !.given = Len(held), !.returned = run.ref]
    /\ pc' = "ruled"
    /\ UNCHANGED <<basket_matrix, selection, rerun, df, analysis>>
    /\ UNCHANGED rfmVars
    /\ UNCHANGED monitor

GenerateAssociationRules == GenerateWith(MinConfidences, MinLifts, {0, 1})

NextRules == MineForRules \/ GenerateAssociationRules

SpecRules == InitMiner /\ [][NextRules]_vars

(***************************************************************************)
(* The rule generator called on an itemset table of the caller's making.   *)
(***************************************************************************)
\* the supports a hand-made table holds: fractions of six orders, and nan
\* (a support column read from a file with a missing value)
TableSupports == {NaN, <<1, 6>>, <<1, 2>>, <<5, 6>>, <<1, 1>>}

\* the rows of the itemsets that are in the table, each with a support
TableRowsOf(supports) ==
    [k \in DOMAIN supports |->
        [itemsets |-> supports[k][1], support |-> supports[k][2],
         length |-> Len(supports[k][1])]]

\* the itemset tables over two products: (1,), (2,) and (1, 2), each left
\* out or given one of the supports
RuleTables ==
    {[columns |-> {"itemsets", "support", "length"}, rows |-> TableRowsOf(one \o two \o both)] :
        one \in {<<>>} \cup {<< <<<<1>>, x>> >> : x \in TableSupports},
        two \in {<<>>} \cup {<< <<<<2>>, x>> >> : x \in TableSupports},
        both \in {<<>>} \cup {<< <<<<1, 2>>, x>> >> : x \in TableSupports}}

InitRuleTables ==
    /\ pc = "start"
    /\ rules_input \in RuleTables
    /\ basket_matrix = NoMatrix
    /\ df = <<>>
    /\ params = NoParams
    /\ frequent_itemsets = NotRun
    /\ rules = NotRun
    /\ selection = NotRun
    /\ rerun = NoAnalysis
    /\ analysis = NoAnalysis
    /\ IdleMonitor
    /\ IdleRfm

\* min_confidence and min_lift passed with a hand-made table
TableConfidences == {<<1, 5>>, <<1, 2>>}

TableLifts == {Zero, <<1, 1>>}

\* a call of generate_associion_rules on the caller's table
GenerateFromTable ==
    /\ pc = "start"
    /\ \E mc \in TableConfidences, ml \in TableLifts, ties \in Ties :
          \E run \in {GenerateAssociionRulesCall(<<rules_input>>, 1, mc, ml, ties)} :
             /\ rules' = run.result
             /\ rules_input' = run.heap[1]
             /\ params' = [params EXCEPT !.min_confidence = mc, !.min_lift = ml,
                                         !.ties = ties,
                                         !.given = 1, !.returned = run.ref]
    /\ pc' = "ruled"
    /\ UNCHANGED <<basket_matrix, frequent_itemsets, selection, rerun, df, analysis>>
    /\ UNCHANGED rfmVars
    /\ UNCHANGED monitor

NextRuleTables == GenerateFromTable

SpecRuleTables == InitRuleTables /\ [][NextRuleTables]_vars

(***************************************************************************)
(* Claims about generate_associion_rules (checked under SpecRules).        *)
(***************************************************************************)
RulesReturned == pc = "ruled" /\ rules.raised = "none"

HasSupport(t, key) == \E r \in Range(t.rows) : r.itemsets = key

\* the non-trivial splits (A, B) of an itemset
Splits(itemset) ==
    {<<SortedTuple(A), SortedTuple(Range(itemset) \ A)>> :
        A \in (SUBSET Range(itemset)) \ {{}, Range(itemset)}}

HasRule(A, B) ==
    \E r \in TableRows(rules) : r.antecedents = A /\ r.consequents = B

\* C3: every rule record returned has confidence >= min_confidence and
\* lift >= min_lift, whatever itemset table was passed in.
C3_RulesMeetThresholds ==
    RulesReturned =>
        \A r \in TableRows(rules) :
            /\ Ge(r.confidence, params.min_confidence)
            /\ Ge(r.lift, params.min_lift)

\* C4: the rules generated from a table that find_frequent_itemsets
\* returned have 0 <= confidence <= 1.
C4_ConfidenceBound ==
    (RulesReturned /\ rules_input = frequent_itemsets.table) =>
        \A r \in TableRows(rules) :
            Ge(r.confidence, Zero) /\ Ge(<<1, 1>>, r.confidence)

\* a rule of confidence below 1 next to a rule of confidence exactly 1
C4_Witness ==
    /\ RulesReturned
    /\ rules_input = frequent_itemsets.table
    /\ \E r1, r2 \in TableRows(rules) :
          ~Ge(r1.confidence, <<1, 1>>) /\ NumEq(r2.confidence, <<1, 1>>)

\* the support of a key of the table is a number
Known(t, key) == HasSupport(t, key) /\ ~IsNaN(SupportGet(t, key))

\* x / y >= z for the fractions x, y, z (y > 0), by cross-multiplication
QuotientAtLeast(x, y, z) == x[1] * y[2] * z[2] >= z[1] * x[2] * y[1]

\* (x / y) / w >= z for the fractions x, y, w, z (y > 0, w > 0)
LiftAtLeast(x, y, w, z) == x[1] * y[2] * w[2] * z[2] >= z[1] * x[2] * y[1] * w[1]

\* the rule A => B of itemset row i, evaluated on its own from the supports
\* of the table, which are fractions of the number of orders
SplitQualifies(t, i, A, B) ==
    /\ QuotientAtLeast(i.support, SupportGet(t, A), params.min_confidence)
    /\ LiftAtLeast(i.support, SupportGet(t, A), SupportGet(t, B), params.min_lift)

\* C5: for every itemset of size >= 2 in the table and every split (A, B) of
\* it whose two supports are in the table, A => B is in the output exactly
\* when support(I)/support(A) >= min_confidence and that confidence divided
\* by support(B) is >= min_lift, whatever happens to B => A; each split is at
\* most one record, so an itemset of size k yields at most 2^k - 2 records.
C5_SplitsEvaluatedAlone ==
    RulesReturned =>
        /\ \A i \in Range(rules_input.rows) :
              \A sp \in Splits(i.itemsets) :
                  (/\ ~IsNaN(i.support)
                   /\ Known(rules_input, sp[1])
                   /\ Known(rules_input, sp[2]))
                  => (HasRule(sp[1], sp[2])
                        <=> SplitQualifies(rules_input, i, sp[1], sp[2]))
        /\ \A j, k \in DOMAIN rules.table.rows :
              (rules.table.rows[j].antecedents = rules.table.rows[k].antecedents
                  /\ rules.table.rows[j].consequents = rules.table.rows[k].consequents)
              => j = k
        /\ \A i \in Range(rules_input.rows) :
              Cardinality({r \in TableRows(rules) :
                              Range(r.antecedents) \cup Range(r.consequents)
                                  = Range(i.itemsets)})
                  <= Pow2(Len(i.itemsets)) - 2

(***************************************************************************)
(* The whole basket pipeline called on a transaction table.                *)
(***************************************************************************)
RECURSIVE OrderRows(_, _)
\* the transaction rows of one order: one row of quantity 1 per product bought;
\* an order that bought nothing is a single row of quantity 0 for product 1
OrderRows(o, ps) ==
    IF ps = <<>> THEN <<>>
    ELSE <<[Order_ID |-> o, Product_Name |-> Head(ps), Quantity |-> 1]>>
         \o OrderRows(o, Tail(ps))

DfOf(r) ==
    Concat([o \in 1..Len(r) |->
               IF r[o] = {} THEN <<[Order_ID |-> o, Product_Name |-> 1, Quantity |-> 0]>>
               ELSE OrderRows(o, SortedTuple(r[o]))])

DfInputs == {DfOf(r) : r \in RowLists}

\* (min_support, min_confidence, min_lift, max_length): the defaults of
\* market_basket_analysis and two stricter calls
PipelineArgs ==
    {[min_support |-> <<1, 200>>, min_confidence |-> <<1, 5>>,
      min_lift |-> <<1, 1>>, max_length |-> 3],
     [min_support |-> <<1, 2>>, min_confidence |-> <<1, 1>>,
      min_lift |-> <<3, 2>>, max_length |-> 2],
     [min_support |-> <<1, 1>>, min_confidence |-> <<1, 2>>,
      min_lift |-> <<0, 1>>, max_length |-> 3]}

InitPipeline ==
    /\ pc = "start"
    /\ df \in DfInputs
    /\ basket_matrix = NoMatrix
    /\ IdleBasket
    /\ IdleMonitor
    /\ IdleRfm

MarketBasketAnalysis ==
    /\ pc = "start"
    /\ \E a \in PipelineArgs, seed \in Seeds, ties \in Ties :
          /\ analysis' = market_basket_analysis(df, a.min_support, a.min_confidence,
                                                a.min_lift, a.max_length, seed, ties)
          /\ params' = [params EXCEPT !.min_support = a.min_support,
                                      !.min_confidence = a.min_confidence,
                                      !.min_lift = a.min_lift,
                                      !.max_length = a.max_length, !.ties = ties]
    /\ basket_matrix' = create_basket_matrix(df)
    /\ pc' = "analysed"
    /\ UNCHANGED <<frequent_itemsets, rules_input, rules, selection, rerun, df>>
    /\ UNCHANGED rfmVars
    /\ UNCHANGED monitor

\* the same call made again on the same table with the same arguments, in a
\* process of the same build whose hash seed may differ
MarketBasketAnalysisAgain ==
    /\ pc = "analysed"
    /\ \E seed \in Seeds :
          rerun' = market_basket_analysis(df, params.min_support, params.min_confidence,
                                          params.min_lift, params.max_length, seed,
                                          params.ties)
    /\ pc' = "reran"
    /\ UNCHANGED <<basket_matrix, params, frequent_itemsets, rules_input, rules,
                   selection, df, analysis>>
    /\ UNCHANGED rfmVars
    /\ UNCHANGED monitor

GetProductRecommendations ==
    /\ pc = "analysed"
    /\ analysis.raised = "none"
    /\ \E product_name \in Products, top_n \in {1, 5} :
          /\ selection' = get_product_recommendations(analysis.rules, product_name, top_n,
                                                      params.ties)
          /\ params' = [params EXCEPT !.product_name = product_name, !.top_n = top_n]
    /\ pc' = "recommended"
    /\ UNCHANGED <<basket_matrix, frequent_itemsets, rules_input, rules, rerun, df,
                   analysis>>
    /\ UNCHANGED rfmVars
    /\ UNCHANGED monitor

GetBundleOpportunities ==
    /\ pc = "analysed"
    /\ analysis.raised = "none"
    /\ \E ml \in {<<1, 1>>, <<2, 1>>}, top_n \in {1, 10} :
          /\ selection' = get_bundle_opportunities(analysis.rules, ml, <<3, 10>>, top_n)
          /\ params' = [params EXCEPT !.top_n = top_n]
    /\ pc' = "bundled"
    /\ UNCHANGED <<basket_matrix, frequent_itemsets, rules_input, rules, rerun, df,
                   analysis>>
    /\ UNCHANGED rfmVars
    /\ UNCHANGED monitor

NextPipeline ==
    \/ MarketBasketAnalysis
    \/ MarketBasketAnalysisAgain
    \/ GetProductRecommendations
    \/ GetBundleOpportunities

SpecPipeline == InitPipeline /\ [][NextPipeline]_vars

(***************************************************************************)
(* Claims about the pipeline (checked under SpecPipeline).                 *)
(***************************************************************************)
\* C8: the pipeline run twice on the same table with the same arguments
\* returns the same tables, row for row, in the same order.
C8_SameOutputTwice ==
    pc = "reran" => rerun = analysis

\* no itemset of the matrix meets min_support
NothingFrequent ==
    \A p \in basket_matrix.columns :
        ~IsFrequent(basket_matrix, {p}, params.min_support)

\* C10: when no itemset meets min_support, or no rule meets the rule
\* thresholds, market_basket_analysis and the two selectors applied to its
\* rule table return empty results and raise nothing.
C10_ThresholdExclusionIsNoError ==
    /\ (pc = "analysed" /\ Len(basket_matrix.rows) >= 1 /\ NothingFrequent)
          => (analysis.raised = "none"
                /\ analysis.itemsets.rows = <<>> /\ analysis.rules.rows = <<>>)
    /\ (pc \in {"recommended", "bundled"} /\ analysis.rules.rows = <<>>)
          => (selection.raised = "none" /\ selection.table.rows = <<>>)

(***************************************************************************)
(* score_rfm                                                               *)
(***************************************************************************)
\* the default of n_bins
DefaultBins == 5

RECURSIVE SortAsc(_)
\* the values of a column in ascending order
SortAsc(x) ==
    IF x = <<>> THEN <<>>
    ELSE LET i == CHOOSE j \in DOMAIN x : \A k \in DOMAIN x : x[j] <= x[k]
         IN <<x[i]>> \o SortAsc([k \in 1..(Len(x) - 1) |-> IF k < i THEN x[k] ELSE x[k + 1]])

\* the column cut as it is, without the rank transform
RankSkipped(x) == x

\* Series.rank(method='first'): equal values are ranked in row order
RankFirst(x) ==
    [i \in DOMAIN x |->
        1 + Cardinality({j \in DOMAIN x : x[j] < x[i]})
          + Cardinality({j \in DOMAIN x : j < i /\ x[j] = x[i]})]

\* the arithmetic by which the installed pandas computes the quantile edges
\* of qcut from quantiles = np.linspace(0, 1, q + 1) and the n sorted values:
\*   pandas<=1.4     algos.quantile: idx = quantile * (n - 1); values[idx]
\*                   when idx % 1 == 0, else a + (b - a) * (idx % 1)
\*   pandas 1.5/2.0  np.quantile: idx = (n - 1) * quantile, gamma its
\*                   fraction; a + (b - a) * gamma, and b - (b - a) * (1 - gamma)
\*                   when gamma >= 0.5
\*   pandas>=2.1     Series.quantile: np.percentile of quantile * 100, which
\*                   divides by 100 again, then as np.quantile
Arithmetics == {"pandas<=1.4", "pandas 1.5/2.0", "pandas>=2.1"}

Linspace(q, k) == Apply("Linspace", <<q, k>>)

QuantileAt(q, k, arith) == Apply("QuantileAt", <<q, k, arith>>)

PositionAt(q, k, n, arith) == Apply("PositionAt", <<q, k, n, arith>>)

Position(q, k, n, arith) == Apply("Position", <<q, k, n, arith>>)

LerpUp(a, b, gamma) == Apply("LerpUp", <<a, b, gamma>>)

LerpDown(a, b, gamma) == Apply("LerpDown", <<a, b, gamma>>)

UpperHalf(gamma) == Apply("UpperHalf", <<gamma>>)

Interpolate(sorted, lo, gamma, arith) ==
    Apply("Interpolate", <<sorted, lo, gamma, arith>>)

EdgeFrom(sorted, pos, lo, arith) == Apply("EdgeFrom", <<sorted, pos, lo, arith>>)

Edge(sorted, pos, arith) == Apply("Edge", <<sorted, pos, arith>>)

EdgesOfSorted(sorted, q, arith) == Apply("EdgesOfSorted", <<sorted, q, arith>>)

Edges(x, q, arith) == Apply("Edges", <<x, q, arith>>)

BinId(bins, q, v) == Apply("BinId", <<bins, q, v>>)

\* np.linspace(0, 1, q + 1)[k]: k * step for step = 1.0 / q, and the last
\* one is 1.0
DoLinspace(q, k) ==
    IF k = q THEN FlInt(1) ELSE FlMul(FlInt(k), FlDiv(FlInt(1), FlInt(q)))

\* the quantile as the interpolation receives it
DoQuantileAt(q, k, arith) ==
    IF arith = "pandas>=2.1"
    THEN FlDiv(FlMul(Linspace(q, k), FlInt(100)), FlInt(100))
    ELSE Linspace(q, k)

\* idx = quantile * (n - 1), the position of edge k among n sorted values
DoPositionAt(q, k, n, arith) == FlMul(QuantileAt(q, k, arith), FlInt(n - 1))

\* the positions for few bins and few rows are computed once
PositionOfSmall ==
    [q \in 1..5, k \in 0..5, n \in 1..5, arith \in Arithmetics |->
        IF k > q THEN FlZero ELSE PositionAt(q, k, n, arith)]

DoPosition(q, k, n, arith) ==
    IF q \in 1..5 /\ n \in 1..5 THEN PositionOfSmall[q, k, n, arith]
    ELSE PositionAt(q, k, n, arith)

\* a + (b - a) * gamma
DoLerpUp(a, b, gamma) == FlAdd(FlInt(a), FlMul(FlInt(b - a), gamma))

\* b - (b - a) * (1 - gamma)
DoLerpDown(a, b, gamma) ==
    FlSub(FlInt(b), FlMul(FlInt(b - a), FlSub(FlInt(1), gamma)))

\* gamma >= 0.5
DoUpperHalf(gamma) == FlCmp(gamma, FlDiv(FlInt(1), FlInt(2))) >= 0

\* the value at the position with whole part lo (counted from 0) and
\* fraction gamma among the sorted values
DoInterpolate(sorted, lo, gamma, arith) ==
    IF arith = "pandas<=1.4"
    THEN IF gamma.m = <<>> THEN FlInt(sorted[lo + 1])
         ELSE LerpUp(sorted[lo + 1], sorted[lo + 2], gamma)
    ELSE IF UpperHalf(gamma)
    THEN LerpDown(sorted[lo + 1], sorted[IF lo + 2 > Len(sorted) THEN lo + 1 ELSE lo + 2],
                  gamma)
    ELSE LerpUp(sorted[lo + 1], sorted[IF lo + 2 > Len(sorted) THEN lo + 1 ELSE lo + 2],
                gamma)

\* the whole part of the position is split off: idx % 1, and vi - floor(vi)
DoEdgeFrom(sorted, pos, lo, arith) ==
    Interpolate(sorted, lo, FlSub(pos, FlInt(lo)), arith)

\* the bin edge at position pos of the sorted values, a double
DoEdge(sorted, pos, arith) == EdgeFrom(sorted, pos, FlFloor(pos), arith)

DoEdgesOfSorted(sorted, q, arith) ==
    [k \in 0..q |-> Edge(sorted, Position(q, k, Len(sorted), arith), arith)]

\* the bin edges x.quantile(np.linspace(0, 1, q + 1)) of a column x that has
\* rows, numbered 0..q
DoEdges(x, q, arith) == EdgesOfSorted(SortAsc(x), q, arith)

\* `Bin edges must be unique`: raised by qcut unless there are just two edges
\* (the edges of a column without rows are all NaN)
DuplicateEdges(x, q, bins) ==
    /\ q + 1 # 2
    /\ \/ x = <<>>
       \/ Cardinality({bins[k] : k \in 0..q}) < q + 1

\* bins.searchsorted(v, side='left'), with include_lowest: v == bins[0] is 1
DoBinId(bins, q, v) ==
    IF FlCmp(bins[0], FlInt(v)) = 0 THEN 1
    ELSE Cardinality({k \in 0..q : FlCmp(bins[k], FlInt(v)) < 0})

\* the operator named op applied to the arguments x
Apply(op, x) ==
    CASE op = "BigAdd" -> DoBigAdd(x[1], x[2], x[3])
      [] op = "BigCmp" -> DoBigCmp(x[1], x[2])
      [] op = "Trim" -> DoTrim(x[1])
      [] op = "ShiftLeft" -> DoShiftLeft(x[1], x[2])
      [] op = "ShiftRight" -> DoShiftRight(x[1], x[2])
      [] op = "BigSub" -> DoBigSub(x[1], x[2])
      [] op = "BigMulLimb" -> DoBigMulLimb(x[1], x[2], x[3])
      [] op = "Round" -> DoRound(x[1], x[2], x[3], x[4])
      [] op = "FlCmp" -> DoFlCmp(x[1], x[2])
      [] op = "FlInt" -> DoFlInt(x[1])
      [] op = "Double" -> DoDouble(x[1])
      [] op = "BigOf" -> DoBigOf(x[1])
      [] op = "BigToInt" -> DoBigToInt(x[1])
      [] op = "BigSubLimbs" -> DoBigSubLimbs(x[1], x[2], x[3])
      [] op = "BigMulLimbs" -> DoBigMulLimbs(x[1], x[2])
      [] op = "BigMul" -> DoBigMul(x[1], x[2])
      [] op = "Inexact" -> DoInexact(x[1], x[2])
      [] op = "Pack" -> DoPack(x[1], x[2], x[3])
      [] op = "RoundBits" -> DoRoundBits(x[1], x[2], x[3], x[4])
      [] op = "IntToDouble" -> DoIntToDouble(x[1])
      [] op = "FlMul" -> DoFlMul(x[1], x[2])
      [] op = "Estimate" -> DoEstimate(x[1], x[2])
      [] op = "Digit" -> DoDigit(x[1], x[2], x[3])
      [] op = "PutDigit" -> DoPutDigit(x[1], x[2], x[3], x[4])
      [] op = "NextDigit" -> DoNextDigit(x[1], x[2], x[3])
      [] op = "BringDown" -> DoBringDown(x[1], x[2], x[3])
      [] op = "DivLoop" -> DoDivLoop(x[1], x[2], x[3], x[4])
      [] op = "BigDivMod" -> DoBigDivMod(x[1], x[2])
      [] op = "Quotient" -> DoQuotient(x[1], x[2])
      [] op = "RoundQuotient" -> DoRoundQuotient(x[1], x[2], x[3])
      [] op = "FlDiv" -> DoFlDiv(x[1], x[2])
      [] op = "AddAligned" -> DoAddAligned(x[1], x[2], x[3], x[4], x[5])
      [] op = "AddOrdered" -> DoAddOrdered(x[1], x[2])
      [] op = "FlAdd" -> DoFlAdd(x[1], x[2])
      [] op = "FlSub" -> DoFlSub(x[1], x[2])
      [] op = "MagCmp" -> DoMagCmp(x[1], x[2])
      [] op = "FlFloor" -> DoFlFloor(x[1])
      [] op = "FlIsWhole" -> DoFlIsWhole(x[1])
      [] op = "FlUp" -> DoFlUp(x[1])
      [] op = "FlDown" -> DoFlDown(x[1])
      [] op = "FlShift" -> DoFlShift(x[1], x[2])
      [] op = "Nearest" -> DoNearest(x[1], x[2])
      [] op = "NearestOf" -> DoNearestOf(x[1], x[2])
      [] op = "Near" -> DoNear(x[1], x[2], x[3])
      [] op = "NearQuotient" -> DoNearQuotient(x[1], x[2])
      [] op = "DivDoubles" -> DoDivDoubles(x[1], x[2])
      [] op = "Div" -> DoDiv(x[1], x[2])
      [] op = "Ge" -> DoGe(x[1], x[2])
      [] op = "Lt" -> DoLt(x[1], x[2])
      [] op = "NumEq" -> DoNumEq(x[1], x[2])
      [] op = "Linspace" -> DoLinspace(x[1], x[2])
      [] op = "QuantileAt" -> DoQuantileAt(x[1], x[2], x[3])
      [] op = "PositionAt" -> DoPositionAt(x[1], x[2], x[3], x[4])
      [] op = "Position" -> DoPosition(x[1], x[2], x[3], x[4])
      [] op = "LerpUp" -> DoLerpUp(x[1], x[2], x[3])
      [] op = "LerpDown" -> DoLerpDown(x[1], x[2], x[3])
      [] op = "UpperHalf" -> DoUpperHalf(x[1])
      [] op = "Interpolate" -> DoInterpolate(x[1], x[2], x[3], x[4])
      [] op = "EdgeFrom" -> DoEdgeFrom(x[1], x[2], x[3], x[4])
      [] op = "Edge" -> DoEdge(x[1], x[2], x[3])
      [] op = "EdgesOfSorted" -> DoEdgesOfSorted(x[1], x[2], x[3])
      [] op = "Edges" -> DoEdges(x[1], x[2], x[3])
      [] op = "BinId" -> DoBinId(x[1], x[2], x[3])

\* labels=range(n_bins - 1, -1, -1)
ReversedLabelsFromZero(n_bins) == [i \in 1..n_bins |-> n_bins - i]

\* labels=range(1, n_bins + 1) given to the Recency cut
LabelsNotReversed(n_bins) == [i \in 1..n_bins |-> i]

\* labels=range(n_bins, 0, -1)
ReversedLabels(n_bins) == [i \in 1..n_bins |-> n_bins + 1 - i]

\* labels=range(1, n_bins + 1)
AscendingLabels(n_bins) == [i \in 1..n_bins |-> i]

\* the bins of pd.qcut(x, q=q): the number of the bin of every row (0 or
\* q + 1 for a row that falls in no bin), or the exception
CutBins(x, q, arith) ==
    LET bins == Edges(x, q, arith)
    IN IF DuplicateEdges(x, q, bins) THEN [raised |-> "ValueError", ids |-> <<>>]
       ELSE [raised |-> "none", ids |-> [i \in DOMAIN x |-> BinId(bins, q, x[i])]]

\* the bins of the columns of one or two small values are computed once
SmallValues == 1..4

CutOfOne ==
    [a \in SmallValues, q \in 1..5, arith \in Arithmetics |-> CutBins(<<a>>, q, arith)]

CutOfTwo ==
    [a \in SmallValues, b \in SmallValues, q \in 1..5, arith \in Arithmetics |->
        CutBins(<<a, b>>, q, arith)]

Cut(x, q, arith) ==
    IF q \in 1..5 /\ Len(x) = 1 /\ x[1] \in SmallValues
    THEN CutOfOne[x[1], q, arith]
    ELSE IF q \in 1..5 /\ Len(x) = 2 /\ x[1] \in SmallValues /\ x[2] \in SmallValues
    THEN CutOfTwo[x[1], x[2], q, arith]
    ELSE CutBins(x, q, arith)

\* pd.qcut(x, q=q, labels=labels): the label of every row (nan for a row that
\* falls in no bin), or the exception
qcut(x, q, labels, arith) ==
    LET cut == Cut(x, q, arith)
    IN IF cut.raised # "none" THEN [raised |-> cut.raised, values |-> <<>>]
       ELSE [raised |-> "none",
             values |-> [i \in DOMAIN x |->
                            IF cut.ids[i] = 0 \/ cut.ids[i] = q + 1
                            THEN [nan |-> TRUE, label |-> 0]
                            ELSE [nan |-> FALSE, label |-> labels[cut.ids[i]]]]]

Column(d, name) == [i \in DOMAIN d |-> d[i][name]]

\* the rows of a table with the column `name` holding `values`
WithColumn(rows, name, values) ==
    [i \in DOMAIN rows |-> (name :> values[i]) @@ rows[i]]

\* df[name] = pd.qcut(...): the labels are written into the object df,
\* unless qcut raises
AssignCut(s, name, cut) ==
    IF s.raised # "none" THEN s
    ELSE IF cut.raised # "none" THEN [s EXCEPT !.raised = cut.raised]
    ELSE [s EXCEPT !.heap = SetItem(s.heap, s.ref,
                                    WithColumn(s.heap[s.ref], name, cut.values))]

\* df['R_Score'] = pd.qcut(df[recency_col], q=n_bins, labels=range(n_bins, 0, -1))
CutRecency(s, n_bins, arith) ==
    AssignCut(s, "R_Score",
              qcut(Column(s.heap[s.ref], "Recency"), n_bins, ReversedLabels(n_bins), arith))

\* df['F_Score'] = pd.qcut(df[frequency_col].rank(method='first'), q=n_bins,
\*                         labels=range(1, n_bins + 1))
CutFrequency(s, n_bins, arith) ==
    AssignCut(s, "F_Score",
              qcut(RankFirst(Column(s.heap[s.ref], "Frequency")), n_bins,
                   AscendingLabels(n_bins), arith))

\* df['M_Score'] = pd.qcut(df[monetary_col].rank(method='first'), q=n_bins,
\*                         labels=range(1, n_bins + 1))
CutMonetary(s, n_bins, arith) ==
    AssignCut(s, "M_Score",
              qcut(RankFirst(Column(s.heap[s.ref], "Monetary")), n_bins,
                   AscendingLabels(n_bins), arith))

\* df[name] = df[name].astype(int): the labels as integers, written into the
\* object df; a nan label cannot be converted
AsTypeInt(s, name) ==
    IF s.raised # "none" THEN s
    ELSE IF \E i \in DOMAIN s.heap[s.ref] : s.heap[s.ref][i][name].nan
    THEN [s EXCEPT !.raised = "ValueError"]
    ELSE [s EXCEPT !.heap =
              SetItem(s.heap, s.ref,
                      WithColumn(s.heap[s.ref], name,
                                 [i \in DOMAIN s.heap[s.ref] |->
                                     s.heap[s.ref][i][name].label]))]

\* score_rfm called on the object d (rfm_df) of the heap: df = rfm_df.copy(), the
\* three cuts, the three conversions; the heap, the object df and the
\* exception when the call ends
ScoreRfmCall(heap, d, n_bins, arith) ==
    AsTypeInt(
        AsTypeInt(
            AsTypeInt(
                CutMonetary(
                    CutFrequency(CutRecency(Running(Copy(heap, d)), n_bins, arith),
                                 n_bins, arith),
                    n_bins, arith),
                "R_Score"),
            "F_Score"),
        "M_Score")

\* what the call gives its caller: `return df`, or the exception
ScoreOutcome(s) ==
    IF s.raised # "none" THEN [raised |-> s.raised, rows |-> <<>>]
    ELSE [raised |-> "none", rows |-> s.heap[s.ref]]

\* the outcome of score_rfm: the rows with the three scores added, or the
\* exception of the first qcut or astype(int) that fails
score_rfm(d, n_bins, arith) == ScoreOutcome(ScoreRfmCall(<<d>>, 1, n_bins, arith))

(***************************************************************************)
(* assign_segment                                                          *)
(***************************************************************************)
\* the catalogue with 'Cant Lose Them' declared before 'At Risk' and 'Lost'
\* before 'Hibernating'
SEGMENT_RULES_NarrowFirst ==
    << <<"Champions",          <<4, 5>>, <<4, 5>>, <<4, 5>> >>,
       <<"Loyal Customers",    <<3, 5>>, <<3, 5>>, <<3, 5>> >>,
       <<"Potential Loyalist", <<4, 5>>, <<1, 3>>, <<3, 5>> >>,
       <<"New Customers",      <<4, 5>>, <<1, 2>>, <<1, 5>> >>,
       <<"Promising",          <<3, 4>>, <<1, 2>>, <<1, 3>> >>,
       <<"Need Attention",     <<2, 3>>, <<2, 3>>, <<2, 4>> >>,
       <<"About to Sleep",     <<2, 3>>, <<1, 2>>, <<1, 2>> >>,
       <<"Cant Lose Them",     <<1, 1>>, <<4, 5>>, <<4, 5>> >>,
       <<"At Risk",            <<1, 2>>, <<3, 5>>, <<3, 5>> >>,
       <<"Lost",               <<1, 1>>, <<1, 1>>, <<1, 2>> >>,
       <<"Hibernating",        <<1, 2>>, <<1, 2>>, <<1, 3>> >> >>

\* SEGMENT_RULES in its declared order: name, then the (min, max) ranges of
\* R, F and M
SEGMENT_RULES ==
    << <<"Champions",          <<4, 5>>, <<4, 5>>, <<4, 5>> >>,
       <<"Loyal Customers",    <<3, 5>>, <<3, 5>>, <<3, 5>> >>,
       <<"Potential Loyalist", <<4, 5>>, <<1, 3>>, <<3, 5>> >>,
       <<"New Customers",      <<4, 5>>, <<1, 2>>, <<1, 5>> >>,
       <<"Promising",          <<3, 4>>, <<1, 2>>, <<1, 3>> >>,
       <<"Need Attention",     <<2, 3>>, <<2, 3>>, <<2, 4>> >>,
       <<"About to Sleep",     <<2, 3>>, <<1, 2>>, <<1, 2>> >>,
       <<"At Risk",            <<1, 2>>, <<3, 5>>, <<3, 5>> >>,
       <<"Cant Lose Them",     <<1, 1>>, <<4, 5>>, <<4, 5>> >>,
       <<"Hibernating",        <<1, 2>>, <<1, 2>>, <<1, 3>> >>,
       <<"Lost",               <<1, 1>>, <<1, 1>>, <<1, 2>> >> >>

\* the test with the upper end of every range excluded
InRangesHalfOpen(e, r, f, m) ==
    /\ e[2][1] <= r /\ r < e[2][2]
    /\ e[3][1] <= f /\ f < e[3][2]
    /\ e[4][1] <= m /\ m < e[4][2]

\* the test of one catalogue entry
InRanges(e, r, f, m) ==
    /\ e[2][1] <= r /\ r <= e[2][2]
    /\ e[3][1] <= f /\ f <= e[3][2]
    /\ e[4][1] <= m /\ m <= e[4][2]

\* a function that ends without a return statement returns None
FallbackMissing(rfm_sum) == "None"

\* the fallback with exclusive boundaries
FallbackExclusive(rfm_sum) ==
    IF rfm_sum > 13 THEN "Loyal Customers"
    ELSE IF rfm_sum > 10 THEN "Potential Loyalist"
    ELSE IF rfm_sum > 7 THEN "Need Attention"
    ELSE IF rfm_sum > 4 THEN "At Risk"
    ELSE "Lost"

\* the default fallback based on the RFM sum
Fallback(rfm_sum) ==
    IF rfm_sum >= 13 THEN "Loyal Customers"
    ELSE IF rfm_sum >= 10 THEN "Potential Loyalist"
    ELSE IF rfm_sum >= 7 THEN "Need Attention"
    ELSE IF rfm_sum >= 4 THEN "At Risk"
    ELSE "Lost"

\* the walk that keeps the last matching entry instead of returning at the
\* first one
assign_segment_last(w) ==
    LET r == w.R_Score
        f == w.F_Score
        m == w.M_Score
        hits == {k \in DOMAIN SEGMENT_RULES : InRanges(SEGMENT_RULES[k], r, f, m)}
    IN IF hits # {} THEN SEGMENT_RULES[Max(hits)][1]
       ELSE Fallback(r + f + m)

assign_segment(w) ==
    LET r == w.R_Score
        f == w.F_Score
        m == w.M_Score
        hits == {k \in DOMAIN SEGMENT_RULES : InRanges(SEGMENT_RULES[k], r, f, m)}
    IN IF hits # {} THEN SEGMENT_RULES[Min(hits)][1]
       ELSE Fallback(r + f + m)

(***************************************************************************)
(* The scorer called on a customer table.                                  *)
(***************************************************************************)
\* the customer tables of n rows (n up to MaxCustomers); Monetary is ten times
\* the Frequency of the next row, so that the two columns tie in different rows
RfmInputs(n) ==
    {[i \in 1..n |->
         [Recency |-> rec[i], Frequency |-> fr[i],
          Monetary |-> 10 * fr[(i % n) + 1]]] :
        rec \in [1..n -> 1..MaxRecency], fr \in [1..n -> 1..MaxFrequency]}

InitScore ==
    /\ pc = "start"
    /\ \E n \in 0..MaxCustomers : rfm_df \in RfmInputs(n)
    /\ scored = [raised |-> "notrun", rows |-> <<>>]
    /\ row = [R_Score |-> 0, F_Score |-> 0, M_Score |-> 0]
    /\ segment = "notrun"
    /\ order_history = EmptyFrame
    /\ rfm = NotRun
    /\ segmentation = NotRun
    /\ basket_matrix = NoMatrix
    /\ df = <<>>
    /\ IdleBasket
    /\ IdleMonitor

basketVars ==
    <<basket_matrix, frequent_itemsets, rules_input, rules, selection, rerun, df,
      analysis>>

\* a call of score_rfm on the caller's table: what the table holds when the
\* call ends, and what the call gave
ScoreRfm ==
    /\ pc = "start"
    /\ \E n_bins \in (1..MaxBins) \cup {DefaultBins}, arith \in Arithmetics :
          \E run \in {ScoreRfmCall(<<rfm_df>>, 1, n_bins, arith)} :
             /\ scored' = ScoreOutcome(run)
             /\ rfm_df' = run.heap[1]
             /\ params' = [params EXCEPT !.n_bins = n_bins, !.given = 1,
                                         !.returned = IF run.raised = "none"
                                                      THEN run.ref ELSE 0]
    /\ pc' = "scored"
    /\ UNCHANGED <<row, segment, order_history, rfm, segmentation>>
    /\ UNCHANGED basketVars
    /\ UNCHANGED monitor

NextScore == ScoreRfm

SpecScore == InitScore /\ [][NextScore]_vars

\* C7: whenever score_rfm returns, R_Score, F_Score and M_Score of every
\* customer are integers in 1..n_bins.
C7_ScoresInRange ==
    (pc = "scored" /\ scored.raised = "none") =>
        \A i \in DOMAIN scored.rows :
            /\ scored.rows[i].R_Score \in 1..params.n_bins
            /\ scored.rows[i].F_Score \in 1..params.n_bins
            /\ scored.rows[i].M_Score \in 1..params.n_bins

\* score_rfm returned for several bins and gave both ends of the scale
C7_Witness ==
    /\ pc = "scored"
    /\ scored.raised = "none"
    /\ params.n_bins >= 3
    /\ \E i, j \in DOMAIN scored.rows :
          /\ scored.rows[i].R_Score = params.n_bins /\ scored.rows[j].R_Score = 1
          /\ scored.rows[i].M_Score = 1 /\ scored.rows[j].F_Score = params.n_bins

(***************************************************************************)
(* The classifier called on a score triple.                                *)
(***************************************************************************)
Scores == 1..DefaultBins

InitSegment ==
    /\ pc = "start"
    /\ row \in [R_Score : Scores, F_Score : Scores, M_Score : Scores]
    /\ segment = "notrun"
    /\ rfm_df = <<>>
    /\ scored = [raised |-> "notrun", rows |-> <<>>]
    /\ order_history = EmptyFrame
    /\ rfm = NotRun
    /\ segmentation = NotRun
    /\ basket_matrix = NoMatrix
    /\ df = <<>>
    /\ IdleBasket
    /\ IdleMonitor

AssignSegment ==
    /\ pc = "start"
    /\ segment' = assign_segment(row)
    /\ pc' = "assigned"
    /\ UNCHANGED <<params, rfm_df, scored, row, order_history,
                   rfm, segmentation>>
    /\ UNCHANGED basketVars
    /\ UNCHANGED monitor

NextSegment == AssignSegment

SpecSegment == InitSegment /\ [][NextSegment]_vars

SegmentNames == {SEGMENT_RULES[k][1] : k \in DOMAIN SEGMENT_RULES}

\* C6: for every score triple of {1..5}^3 assign_segment returns one segment
\* name of the catalogue; no triple ends in an unhandled case.
C6_SegmentTotal ==
    pc = "assigned" => segment \in SegmentNames

\* a triple that matches no catalogue range and is named by the fallback
C6_Witness ==
    /\ pc = "assigned"
    /\ \A k \in DOMAIN SEGMENT_RULES :
          ~InRanges(SEGMENT_RULES[k], row.R_Score, row.F_Score, row.M_Score)
    /\ segment \in SegmentNames

(***************************************************************************)
(* calculate_rfm, create_rfm_segmentation                                  *)
(***************************************************************************)
\* bounds of the order tables of the RFM pipeline
MaxOrderRows == 3
MaxDate == 2

\* the strategies without an entry for 'Need Attention'
SEGMENT_STRATEGIES_WithoutNeedAttention ==
    << <<"Champions", "Reward with early access, exclusive offers. Ask for reviews and referrals.">>,
       <<"Loyal Customers", "Upsell higher-value products. Engage with loyalty program.">>,
       <<"Potential Loyalist", "Recommend products, offer membership benefits.">>,
       <<"New Customers", "Onboarding series, provide excellent support.">>,
       <<"Promising", "Create brand awareness, offer first-purchase incentives.">>,
       <<"About to Sleep", "Re-engage with personalized recommendations.">>,
       <<"At Risk", "Send aggressive win-back campaigns, conduct surveys.">>,
       <<"Cant Lose Them", "Personal outreach, premium support, understand their needs.">>,
       <<"Hibernating", "Offer steep discounts, highlight value proposition.">>,
       <<"Lost", "Attempt reactivation, but focus budget elsewhere.">> >>

\* SEGMENT_COLORS in its declared order: name, colour
SEGMENT_COLORS ==
    << <<"Champions", "#1f77b4">>,
       <<"Loyal Customers", "#2ca02c">>,
       <<"Potential Loyalist", "#17becf">>,
       <<"New Customers", "#9467bd">>,
       <<"Promising", "#c5b0d5">>,
       <<"Need Attention", "#ffbb78">>,
       <<"About to Sleep", "#ff9896">>,
       <<"At Risk", "#ff7f0e">>,
       <<"Cant Lose Them", "#d62728">>,
       <<"Hibernating", "#c7c7c7">>,
       <<"Lost", "#7f7f7f">> >>

\* SEGMENT_STRATEGIES in its declared order: name, strategy
SEGMENT_STRATEGIES ==
    << <<"Champions", "Reward with early access, exclusive offers. Ask for reviews and referrals.">>,
       <<"Loyal Customers", "Upsell higher-value products. Engage with loyalty program.">>,
       <<"Potential Loyalist", "Recommend products, offer membership benefits.">>,
       <<"New Customers", "Onboarding series, provide excellent support.">>,
       <<"Promising", "Create brand awareness, offer first-purchase incentives.">>,
       <<"Need Attention", "Reactivate with limited-time offers, highlight new products.">>,
       <<"About to Sleep", "Re-engage with personalized recommendations.">>,
       <<"At Risk", "Send aggressive win-back campaigns, conduct surveys.">>,
       <<"Cant Lose Them", "Personal outreach, premium support, understand their needs.">>,
       <<"Hibernating", "Offer steep discounts, highlight value proposition.">>,
       <<"Lost", "Attempt reactivation, but focus budget elsewhere.">> >>

\* Series.map(SEGMENT_STRATEGIES): a name that is no key maps to NaN
MapStrategy(name) ==
    LET hits == {k \in DOMAIN SEGMENT_STRATEGIES : SEGMENT_STRATEGIES[k][1] = name}
    IN IF hits = {} THEN "NaN" ELSE SEGMENT_STRATEGIES[Min(hits)][2]

\* the columns calculate_rfm reads
OrderColumns == {"Customer_ID", "Order_Date", "Net_Sales", "Order_ID"}

RfmColumns == {"Customer_ID", "Recency", "Frequency", "Monetary"}

\* the rows of customer c
RowsOf(d, c) == {i \in DOMAIN d.rows : d.rows[i].Customer_ID = c}

RECURSIVE RevenueSum(_, _)
\* revenue_col: 'sum' for the group of customer c
RevenueSum(rows, c) ==
    IF rows = <<>> THEN 0
    ELSE (IF Head(rows).Customer_ID = c THEN Head(rows).Net_Sales ELSE 0)
         + RevenueSum(Tail(rows), c)

\* reference_date as calculate_rfm settles it; 0 stands for None, and for the
\* NaT that the maximum of an empty date column gives
ReferenceDate(d, reference_date) ==
    IF reference_date # 0 THEN reference_date
    ELSE IF d.rows = <<>> THEN 0
    ELSE Max({d.rows[i].Order_Date : i \in DOMAIN d.rows}) + 1

\* calculate_rfm with order_id_col: 'count' (the lines of the customer) in
\* place of 'nunique'
calculate_rfm_counting(d, reference_date) ==
    IF ~(OrderColumns \subseteq d.columns) THEN Raised("KeyError")
    ELSE LET ref == ReferenceDate(d, reference_date)
             customers == SortedTuple({d.rows[i].Customer_ID : i \in DOMAIN d.rows})
         IN Returned(
              [columns |-> RfmColumns,
               rows |-> [k \in 1..Len(customers) |->
                   LET mine == RowsOf(d, customers[k])
                   IN [Customer_ID |-> customers[k],
                       Recency |-> ref - Max({d.rows[i].Order_Date : i \in mine}),
                       Frequency |-> Cardinality(mine),
                       Monetary |-> RevenueSum(d.rows, customers[k])]]])

\* the outcome of calculate_rfm: one row per group of groupby(customer_id_col),
\* in sorted customer order; dates are whole days
calculate_rfm(d, reference_date) ==
    IF ~(OrderColumns \subseteq d.columns) THEN Raised("KeyError")
    ELSE LET ref == ReferenceDate(d, reference_date)
             customers == SortedTuple({d.rows[i].Customer_ID : i \in DOMAIN d.rows})
         IN Returned(
              [columns |-> RfmColumns,
               rows |-> [k \in 1..Len(customers) |->
                   LET mine == RowsOf(d, customers[k])
                   IN [Customer_ID |-> customers[k],
                       Recency |-> ref - Max({d.rows[i].Order_Date : i \in mine}),
                       Frequency |-> Cardinality({d.rows[i].Order_ID : i \in mine}),
                       Monetary |-> RevenueSum(d.rows, customers[k])]]])

\* an order table whose date column holds the days as text (dtype object)
DatesAsText(t) == [columns |-> t.columns, rows |-> t.rows, dates |-> "text"]

\* the table with pd.to_datetime(df[date_col]) as its date column: the days
\* parsed from their text; datetime64 days are taken as they are
ToDatetime(t) == [columns |-> t.columns, rows |-> t.rows]

\* df[date_col] = pd.to_datetime(df[date_col]): written into the object df;
\* KeyError when df has no such column
ConvertDates(s) ==
    IF "Order_Date" \notin s.heap[s.ref].columns THEN [s EXCEPT !.raised = "KeyError"]
    ELSE [s EXCEPT !.heap = SetItem(s.heap, s.ref, ToDatetime(s.heap[s.ref]))]

\* the statements after the conversion: df is read by max() and
\* groupby().agg(); rfm, the table returned, is made by reset_index()
Aggregated(s, reference_date) ==
    IF s.raised # "none" THEN Ends(s.heap, 0, Raised(s.raised))
    ELSE ReadOnlyCall(s.heap, calculate_rfm(s.heap[s.ref], reference_date))

\* calculate_rfm called on the object d (df) of the heap: df = df.copy() binds
\* the name to a new object, which the conversion then writes
CalculateRfmCall(heap, d, reference_date) ==
    Aggregated(ConvertDates(Running(Copy(heap, d))), reference_date)

\* the columns of the table create_rfm_segmentation returns
SegmentationColumns ==
    RfmColumns \cup {"R_Score", "F_Score", "M_Score", "RFM_Segment", "Segment",
                     "Strategy", "Last_Updated"}

\* the columns added to one scored row; RFM_Segment, the three digits joined,
\* is kept as the triple
SegmentationRow(w, now) ==
    [RFM_Segment |-> <<w.R_Score, w.F_Score, w.M_Score>>,
     Segment |-> assign_segment(w),
     Strategy |-> MapStrategy(assign_segment(w)),
     Last_Updated |-> now] @@ w

\* calculate_rfm grouping by group_cols = [customer, Platform] when every
\* order line is of another platform: one row per line
calculate_rfm_by_line(d, reference_date) ==
    IF ~(OrderColumns \subseteq d.columns) THEN Raised("KeyError")
    ELSE LET ref == ReferenceDate(d, reference_date)
         IN Returned(
              [columns |-> RfmColumns \cup {"Platform"},
               rows |-> [k \in DOMAIN d.rows |->
                   [Customer_ID |-> d.rows[k].Customer_ID,
                    Recency |-> ref - d.rows[k].Order_Date,
                    Frequency |-> 1,
                    Monetary |-> d.rows[k].Net_Sales]]])

\* create_rfm_segmentation passing group_cols on to the grouping
create_rfm_segmentation_grouped(d, reference_date, include_platform, now, arith) ==
    LET group_cols == IF include_platform /\ "Platform" \in d.columns
                      THEN <<"Customer_ID", "Platform">> ELSE <<"Customer_ID">>
        calculated == IF Len(group_cols) = 2 THEN calculate_rfm_by_line(d, reference_date)
                      ELSE calculate_rfm(d, reference_date)
        sc == score_rfm(calculated.table.rows, DefaultBins, arith)
    IN IF calculated.raised # "none" THEN Raised(calculated.raised)
       ELSE IF sc.raised # "none" THEN Raised(sc.raised)
       ELSE Returned([columns |-> SegmentationColumns,
                      rows |-> [i \in DOMAIN sc.rows |-> SegmentationRow(sc.rows[i], now)]])

\* the outcome of create_rfm_segmentation; `now` is what datetime.now() gives.
\* group_cols is computed from include_platform and never used
create_rfm_segmentation(d, reference_date, include_platform, now, arith) ==
    LET group_cols == IF include_platform /\ "Platform" \in d.columns
                      THEN <<"Customer_ID", "Platform">> ELSE <<"Customer_ID">>
        calculated == calculate_rfm(d, reference_date)
        sc == score_rfm(calculated.table.rows, DefaultBins, arith)
    IN IF calculated.raised # "none" THEN Raised(calculated.raised)
       ELSE IF sc.raised # "none" THEN Raised(sc.raised)
       ELSE Returned([columns |-> SegmentationColumns,
                      rows |-> [i \in DOMAIN sc.rows |-> SegmentationRow(sc.rows[i], now)]])

(***************************************************************************)
(* The RFM pipeline called on an order table.                              *)
(***************************************************************************)
OrderIds == 1..2

\* the customers of the order lines
OrderCustomers == 1..2

\* a number that identifies an order row (used to list rows in one order)
OrderRowCode(r) == ((r.Customer_ID * (MaxDate + 1)) + r.Order_Date) * 3 + r.Order_ID

\* the order lines: a customer, a day, an order id and a revenue that goes
\* with the order id
OrderLines ==
    {[Customer_ID |-> c, Order_Date |-> t, Order_ID |-> o, Net_Sales |-> 10 * o] :
        c \in OrderCustomers, t \in 1..MaxDate, o \in OrderIds}

\* the row lists of the order tables of n lines (n up to MaxOrderRows).  The
\* groups and their aggregates do not depend on the order of the rows, so the
\* rows are listed in one canonical order.
RECURSIVE OrderRowLists(_)
OrderRowLists(n) ==
    IF n = 0 THEN {<<>>}
    ELSE UNION {{Append(r, l) :
                    l \in {k \in OrderLines :
                              n = 1 \/ OrderRowCode(r[n - 1]) <= OrderRowCode(k)}} :
                r \in OrderRowLists(n - 1)}

\* the order tables of n lines: with or without a Platform column (whose
\* values no operation reads), and, without lines, pd.DataFrame()
OrderTables(n) ==
    {[columns |-> cols, rows |-> r] :
        cols \in {OrderColumns, OrderColumns \cup {"Platform"}}, r \in OrderRowLists(n)}
    \cup (IF n = 0 THEN {EmptyFrame} ELSE {})

\* the values datetime.now() takes
Clock == {1, 2}

InitSegmentation ==
    /\ pc = "start"
    /\ \E n \in 0..MaxOrderRows : order_history \in OrderTables(n)
    /\ rfm = NotRun
    /\ segmentation = NotRun
    /\ rfm_df = <<>>
    /\ scored = [raised |-> "notrun", rows |-> <<>>]
    /\ row = [R_Score |-> 0, F_Score |-> 0, M_Score |-> 0]
    /\ segment = "notrun"
    /\ basket_matrix = NoMatrix
    /\ df = <<>>
    /\ IdleBasket
    /\ IdleMonitor

\* reference_date: None (0), or the day after the last day of the calendar
ReferenceDates == {0, MaxDate + 1}

CalculateRfm ==
    /\ pc = "start"
    /\ \E reference_date \in ReferenceDates :
          \E run \in {CalculateRfmCall(<<order_history>>, 1, reference_date)} :
             /\ rfm' = run.result
             /\ order_history' = run.heap[1]
             /\ params' = [params EXCEPT !.reference_date = reference_date,
                                         !.given = 1, !.returned = run.ref]
    /\ pc' = "calculated"
    /\ UNCHANGED <<rfm_df, scored, row, segment, segmentation>>
    /\ UNCHANGED basketVars
    /\ UNCHANGED monitor

\* score_rfm called on the table calculate_rfm returned
ScoreCalculated ==
    /\ pc = "calculated"
    /\ rfm.raised = "none"
    /\ \E n_bins \in {2, DefaultBins}, arith \in Arithmetics :
          /\ scored' = score_rfm(rfm.table.rows, n_bins, arith)
          /\ params' = [params EXCEPT !.n_bins = n_bins]
    /\ rfm_df' = rfm.table.rows
    /\ pc' = "calculated_scored"
    /\ UNCHANGED <<row, segment, order_history, rfm, segmentation>>
    /\ UNCHANGED basketVars
    /\ UNCHANGED monitor

CreateRfmSegmentation ==
    /\ pc = "start"
    /\ \E reference_date \in ReferenceDates, include_platform \in BOOLEAN,
          now \in Clock, arith \in Arithmetics :
          /\ segmentation' = create_rfm_segmentation(order_history, reference_date,
                                                     include_platform, now, arith)
          /\ params' = [params EXCEPT !.reference_date = reference_date,
                                      !.include_platform = include_platform]
    /\ pc' = "segmented"
    /\ UNCHANGED <<rfm_df, scored, row, segment, order_history, rfm>>
    /\ UNCHANGED basketVars
    /\ UNCHANGED monitor

NextSegmentation == CalculateRfm \/ ScoreCalculated \/ CreateRfmSegmentation

SpecSegmentation == InitSegmentation /\ [][NextSegmentation]_vars

\* C11: on an order table without rows (zero customers) calculate_rfm,
\* score_rfm and create_rfm_segmentation each return an empty table and raise
\* nothing.
C11_EmptyHistoryEmptyResult ==
    /\ (pc = "calculated" /\ order_history.rows = <<>>)
          => (rfm.raised = "none" /\ rfm.table.rows = <<>>)
    /\ (pc = "calculated_scored" /\ order_history.rows = <<>>)
          => (scored.raised = "none" /\ scored.rows = <<>>)
    /\ (pc = "segmented" /\ order_history.rows = <<>>)
          => (segmentation.raised = "none" /\ segmentation.table.rows = <<>>)

(***************************************************************************)
(* Claims about score_rfm on degenerate tables (checked under SpecScore).  *)
(***************************************************************************)
\* q times the k-th quantile of the sorted values in exact arithmetic: the
\* linear interpolation at position (n - 1) * k / q
ExactOfSorted(sorted, q, lo, rem) ==
    IF rem = 0 THEN q * sorted[lo]
    ELSE q * sorted[lo] + rem * (sorted[lo + 1] - sorted[lo])

ExactQuantile(x, q, k) ==
    ExactOfSorted(SortAsc(x), q, (((Len(x) - 1) * k) \div q) + 1, ((Len(x) - 1) * k) % q)

\* the q + 1 exact quantiles of x are not strictly increasing: some bin has
\* no width (an empty x has no edges at all)
DegenerateBins(x, q) ==
    \/ x = <<>>
    \/ \E j, k \in 0..q : j < k /\ ExactQuantile(x, q, j) >= ExactQuantile(x, q, k)

\* one of the three cuts of score_rfm cannot form n_bins bins of positive width
CannotFormBins(d, n_bins) ==
    \/ DegenerateBins(Column(d, "Recency"), n_bins)
    \/ DegenerateBins(RankFirst(Column(d, "Frequency")), n_bins)
    \/ DegenerateBins(RankFirst(Column(d, "Monetary")), n_bins)

\* C12: when the rows or the distinct values of the customer table are too
\* few to form n_bins quantile bins of positive width, score_rfm raises; it
\* never returns scores cut with duplicate bin edges.
C12_DegenerateBinsRaise ==
    (pc = "scored" /\ CannotFormBins(rfm_df, params.n_bins)) => scored.raised # "none"

(***************************************************************************)
(* The scorer called on customer tables with tied Frequency and Monetary.  *)
(***************************************************************************)
MaxScoreRows == 4

\* customer tables of up to MaxScoreRows rows: Recency is the row number (all
\* distinct, so the Recency cut forms its bins), Frequency takes few values,
\* Monetary is ten times the Frequency of the next row
TiedInputs ==
    UNION {{[i \in 1..n |->
                [Recency |-> i, Frequency |-> fr[i], Monetary |-> 10 * fr[(i % n) + 1]]] :
               fr \in [1..n -> 1..(MaxFrequency + 1)]} :
           n \in 0..MaxScoreRows}

InitScoreTied ==
    /\ pc = "start"
    /\ rfm_df \in TiedInputs
    /\ scored = [raised |-> "notrun", rows |-> <<>>]
    /\ row = [R_Score |-> 0, F_Score |-> 0, M_Score |-> 0]
    /\ segment = "notrun"
    /\ order_history = EmptyFrame
    /\ rfm = NotRun
    /\ segmentation = NotRun
    /\ basket_matrix = NoMatrix
    /\ df = <<>>
    /\ IdleBasket
    /\ IdleMonitor

SpecScoreTied == InitScoreTied /\ [][NextScore]_vars

\* the number of customers that got score s in column col
CountScore(rows, col, s) == Cardinality({i \in DOMAIN rows : rows[i][col] = s})

\* C13: when the number of customers n is a multiple of n_bins and score_rfm
\* returns, each F_Score and each M_Score of 1..n_bins is held by exactly
\* n / n_bins customers, also when Frequency or Monetary values are tied.
C13_EqualBuckets ==
    (pc = "scored" /\ scored.raised = "none" /\ Len(rfm_df) % params.n_bins = 0) =>
        \A s \in 1..params.n_bins :
            /\ CountScore(scored.rows, "F_Score", s) * params.n_bins = Len(rfm_df)
            /\ CountScore(scored.rows, "M_Score", s) * params.n_bins = Len(rfm_df)

\* two customers per score, cut from a Frequency column whose values are
\* tied across the bucket border
C13_Witness ==
    /\ pc = "scored"
    /\ scored.raised = "none"
    /\ params.n_bins >= 2
    /\ Len(rfm_df) = 2 * params.n_bins
    /\ \E i, j \in DOMAIN rfm_df :
          /\ rfm_df[i].Frequency = rfm_df[j].Frequency
          /\ scored.rows[i].F_Score # scored.rows[j].F_Score
    /\ \A s \in 1..params.n_bins : CountScore(scored.rows, "F_Score", s) = 2

(***************************************************************************)
(* The classifier called on any row of integer scores.                     *)
(***************************************************************************)
MaxScore == 7

\* the scores a caller may pass: score_rfm with n_bins above 5 gives scores
\* above every catalogue range, and 0 lies below every range
WideScores == 0..MaxScore

InitSegmentWide ==
    /\ pc = "start"
    /\ row \in [R_Score : WideScores, F_Score : WideScores, M_Score : WideScores]
    /\ segment = "notrun"
    /\ rfm_df = <<>>
    /\ scored = [raised |-> "notrun", rows |-> <<>>]
    /\ order_history = EmptyFrame
    /\ rfm = NotRun
    /\ segmentation = NotRun
    /\ basket_matrix = NoMatrix
    /\ df = <<>>
    /\ IdleBasket
    /\ IdleMonitor

SpecSegmentWide == InitSegmentWide /\ [][NextSegment]_vars

\* the row matches no range of the catalogue
Unmatched(w) ==
    \A k \in DOMAIN SEGMENT_RULES :
        ~InRanges(SEGMENT_RULES[k], w.R_Score, w.F_Score, w.M_Score)

RowSum(w) == w.R_Score + w.F_Score + w.M_Score

\* C14: a triple that matches no catalogue range gets the segment of its sum
\* s = R + F + M: 'Loyal Customers' for s >= 13, 'Potential Loyalist' for
\* 10 <= s <= 12, 'Need Attention' for 7 <= s <= 9, 'At Risk' for 4 <= s <= 6,
\* 'Lost' for s <= 3.
C14_FallbackBySum ==
    (pc = "assigned" /\ Unmatched(row)) =>
        /\ (RowSum(row) >= 13) => segment = "Loyal Customers"
        /\ (RowSum(row) \in 10..12) => segment = "Potential Loyalist"
        /\ (RowSum(row) \in 7..9) => segment = "Need Attention"
        /\ (RowSum(row) \in 4..6) => segment = "At Risk"
        /\ (RowSum(row) <= 3) => segment = "Lost"

\* an unmatched triple whose sum is exactly 13
C14_Witness ==
    /\ pc = "assigned"
    /\ Unmatched(row)
    /\ RowSum(row) = 13
    /\ segment = "Loyal Customers"

(***************************************************************************)
(* The matrix builder called on a transaction table.                       *)
(***************************************************************************)
MaxDfRows == 3

\* the transaction lines: two orders, two products, and quantities that
\* include a return (-1) and a cancelled line (0)
DfLines ==
    {[Order_ID |-> o, Product_Name |-> p, Quantity |-> q] :
        o \in 1..2, p \in 1..2, q \in {-1, 0, 1, 2}}

\* a number that identifies a transaction line (used to list rows in one order)
DfLineCode(r) == ((r.Order_ID * 3) + r.Product_Name) * 4 + r.Quantity

\* the transaction tables: up to MaxDfRows lines.  The groups and their sums
\* do not depend on the order of the rows, so the rows are listed in one
\* canonical order.
RECURSIVE DfTablesOf(_)
DfTablesOf(n) ==
    IF n = 0 THEN {<<>>}
    ELSE UNION {{Append(r, l) :
                    l \in {k \in DfLines :
                              n = 1 \/ DfLineCode(r[n - 1]) <= DfLineCode(k)}} :
                r \in DfTablesOf(n - 1)}

DfTables == UNION {DfTablesOf(n) : n \in 0..MaxDfRows}

InitMatrix ==
    /\ pc = "start"
    /\ df \in DfTables
    /\ basket_matrix = NoMatrix
    /\ IdleBasket
    /\ IdleMonitor
    /\ IdleRfm

CreateBasketMatrix ==
    /\ pc = "start"
    /\ \E run \in {CreateBasketMatrixCall(<<df>>, 1)} :
          /\ basket_matrix' = run.result.table
          /\ df' = run.heap[1]
          /\ params' = [params EXCEPT !.given = 1, !.returned = run.ref]
    /\ pc' = "built"
    /\ UNCHANGED <<frequent_itemsets, rules_input, rules, selection, rerun, analysis>>
    /\ UNCHANGED rfmVars
    /\ UNCHANGED monitor

NextMatrix == CreateBasketMatrix

SpecMatrix == InitMatrix /\ [][NextMatrix]_vars

(***************************************************************************)
(* Claims about create_basket_matrix (checked under SpecMatrix).           *)
(***************************************************************************)
OrderIdsOf(d) == {d[i].Order_ID : i \in DOMAIN d}

ProductsOf(d) == {d[i].Product_Name : i \in DOMAIN d}

RECURSIVE TotalOver(_, _)
\* the sum of the quantities of the rows whose indices are in I
TotalOver(d, I) ==
    IF I = {} THEN 0
    ELSE LET i == CHOOSE j \in I : TRUE IN d[i].Quantity + TotalOver(d, I \ {i})

\* the summed quantity of all rows of order o and product p
TotalQuantity(d, o, p) ==
    TotalOver(d, {i \in DOMAIN d : d[i].Order_ID = o /\ d[i].Product_Name = p})

\* the matrix row of order o: rows are in sorted order of the order ids
MatrixRow(m, d, o) == m.rows[Cardinality({x \in OrderIdsOf(d) : x <= o})]

\* C15: the matrix has one row per order and one column per product of the
\* table, and the flag of (order o, product p) is 1 exactly when the
\* quantities of all rows of o and p sum to more than 0.
C15_FlagIffPositiveSum ==
    pc = "built" =>
        /\ Len(basket_matrix.rows) = Cardinality(OrderIdsOf(df))
        /\ basket_matrix.columns = ProductsOf(df)
        /\ \A o \in OrderIdsOf(df), p \in ProductsOf(df) :
              (p \in MatrixRow(basket_matrix, df, o)) <=> (TotalQuantity(df, o, p) > 0)

\* a pair with two rows, one of them a return, whose sum is positive and
\* whose flag is 1, next to a pair whose rows sum to 0 and whose flag is 0
C15_Witness ==
    /\ pc = "built"
    /\ \E i, j \in DOMAIN df :
          /\ i # j
          /\ df[i].Order_ID = df[j].Order_ID
          /\ df[i].Product_Name = df[j].Product_Name
          /\ df[i].Quantity < 0
          /\ TotalQuantity(df, df[i].Order_ID, df[i].Product_Name) > 0
          /\ df[i].Product_Name \in MatrixRow(basket_matrix, df, df[i].Order_ID)
    /\ \E o \in OrderIdsOf(df), p \in ProductsOf(df) :
          p \notin MatrixRow(basket_matrix, df, o)

\* C16: every product that is a column of the matrix has flag 1 in at least
\* one order.
C16_EveryColumnBought ==
    pc = "built" =>
        \A p \in basket_matrix.columns :
            \E i \in DOMAIN basket_matrix.rows : p \in basket_matrix.rows[i]

(***************************************************************************)
(* The bundle selector called on a rule table a caller holds.              *)
(***************************************************************************)
\* the rule table as the caller passes it: as generate_associion_rules
\* returned it, or with its rows in the opposite order (rules.iloc[::-1], a
\* table sorted the other way round)
Arranged(t, arrangement) ==
    IF arrangement = "generated" THEN t ELSE [t EXCEPT !.rows = Reverse(t.rows)]

\* the tables the caller holds when it asks for bundles: the rule table and,
\* when it passes the rows the other way round, the table rules.iloc[::-1]
HeldForBundles(t, arrangement) ==
    IF arrangement = "generated" THEN <<t>> ELSE <<t, Arranged(t, arrangement)>>

GetBundlesFromTable ==
    /\ pc = "ruled"
    /\ rules.raised = "none"
    /\ \E arrangement \in {"generated", "reversed"}, ml \in {<<1, 1>>, <<2, 1>>},
          top_n \in {1, 10} :
          \E held \in {HeldForBundles(rules.table, arrangement)} :
          \E run \in {GetBundleOpportunitiesCall(held, Len(held), ml, <<3, 10>>, top_n)} :
             /\ selection' = run.result
             /\ rules' = [rules EXCEPT !.table = run.heap[1]]
             /\ params' = [params EXCEPT !.arrangement = arrangement,
                                         !.bundle_min_lift = ml,
                                         !.bundle_min_confidence = <<3, 10>>,
                                         !.top_n = top_n,
                                         !.given = Len(held), !.returned = run.ref]
    /\ pc' = "bundled"
    /\ UNCHANGED <<basket_matrix, frequent_itemsets, rules_input, rerun, df, analysis>>
    /\ UNCHANGED rfmVars
    /\ UNCHANGED monitor

NextBundles == MineForRules \/ GenerateAssociationRules \/ GetBundlesFromTable

SpecBundles == InitMiner /\ [][NextBundles]_vars

\* the rules of the passed table that meet the selector's thresholds
StrongRules ==
    {r \in Range(rules.table.rows) :
        /\ Ge(r.lift, params.bundle_min_lift)
        /\ Ge(r.confidence, params.bundle_min_confidence)}

\* rule r is among the returned bundles
IsReturned(r) ==
    \E b \in TableRows(selection) :
        b.antecedents = r.antecedents /\ b.consequents = r.consequents

\* C18: for every rule table passed, get_bundle_opportunities returns top_n
\* (or all, if fewer) of the rules with lift >= min_lift and
\* confidence >= min_confidence, and no rule of them that is left out has a
\* strictly higher lift than a rule returned.
C18_BundlesAreTopByLift ==
    (pc = "bundled" /\ selection.raised = "none") =>
        /\ \A b \in TableRows(selection) :
              \E r \in StrongRules :
                  /\ b.antecedents = r.antecedents /\ b.consequents = r.consequents
                  /\ b.lift = r.lift
        /\ Len(selection.table.rows)
             = (IF Cardinality(StrongRules) < params.top_n
                THEN Cardinality(StrongRules) ELSE params.top_n)
        /\ \A x \in StrongRules : \A y \in StrongRules :
              (~IsReturned(x) /\ IsReturned(y)) => ~Lt(y.lift, x.lift)

(***************************************************************************)
(* Claims about get_product_recommendations (checked under SpecPipeline).  *)
(***************************************************************************)
\* the rules of the analysed table that recommend product c to the buyers of
\* params.product_name
RecommendingRules(c) ==
    {r \in Range(analysis.rules.rows) :
        params.product_name \in Range(r.antecedents) /\ c \in Range(r.consequents)}

\* C17: get_product_recommendations returns at most top_n rows, each drawn
\* from a rule whose antecedent contains the product asked for; a consequent
\* product is in at most one row, which carries the highest lift of the rules
\* that recommend it; the rows are in descending lift order.
C17_RecommendationsDeduplicated ==
    (pc = "recommended" /\ selection.raised = "none") =>
        LET rows == selection.table.rows
        IN /\ Len(rows) <= params.top_n
           /\ \A i \in DOMAIN rows :
                 /\ \E r \in RecommendingRules(rows[i].product) : r.lift = rows[i].lift
                 /\ \A r \in RecommendingRules(rows[i].product) : Ge(rows[i].lift, r.lift)
           /\ \A i, j \in DOMAIN rows : rows[i].product = rows[j].product => i = j
           /\ \A i, j \in DOMAIN rows : i < j => Ge(rows[i].lift, rows[j].lift)

(***************************************************************************)
(* Claims about the order of the itemset table (checked under SpecMiner).  *)
(***************************************************************************)
\* the position at which the miner discovered the itemset in a process of the
\* given hash seed
Discovered(itemset, seed) ==
    LET dict == FrequentDict(basket_matrix, params.min_support, params.max_length, seed)
    IN CHOOSE k \in DOMAIN dict : dict[k][1] = itemset

\* C19: the itemset table is in non-increasing support order, itemsets of
\* equal support are in the order of their discovery (the order of discovery
\* of a process of some hash seed: the table does not tell the seed), and so
\* a smaller itemset comes before a larger one of equal support.
C19_TiesKeepDiscoveryOrder ==
    MinerReturned =>
        LET rows == frequent_itemsets.table.rows
        IN \E seed \in Seeds :
              \A i, j \in DOMAIN rows :
                 i < j =>
                    /\ Ge(rows[i].support, rows[j].support)
                    /\ NumEq(rows[i].support, rows[j].support)
                          => /\ Discovered(rows[i].itemsets, seed)
                                    < Discovered(rows[j].itemsets, seed)
                             /\ rows[i].length <= rows[j].length

(***************************************************************************)
(* Claims about splits with a missing support (checked under SpecRules).   *)
(***************************************************************************)
\* C20: for a split (A, B) of an itemset of the table, when the table has no
\* row for A or no row for B, the output has no rule A => B, whatever
\* min_confidence and min_lift are.
C20_MissingSupportSkipsSplit ==
    RulesReturned =>
        \A i \in Range(rules_input.rows) :
            \A sp \in Splits(i.itemsets) :
                (~HasSupport(rules_input, sp[1]) \/ ~HasSupport(rules_input, sp[2]))
                => ~HasRule(sp[1], sp[2])

(***************************************************************************)
(* The order of the catalogue walk.                                        *)
(***************************************************************************)
\* entry k of the catalogue contains the three scores of the row
Matches(k, w) == InRanges(SEGMENT_RULES[k], w.R_Score, w.F_Score, w.M_Score)

\* C21: assign_segment returns the name of the first catalogue entry, in the
\* declared order, whose three inclusive ranges contain the scores, so the
\* fallback names a row only when no entry matches; every triple with R, F
\* and M in {4,5} lies in the ranges of 'Loyal Customers' too and is
\* classified 'Champions'.
C21_FirstMatchWins ==
    pc = "assigned" =>
        /\ \A k \in DOMAIN SEGMENT_RULES :
              (Matches(k, row) /\ \A j \in 1..(k - 1) : ~Matches(j, row))
                  => segment = SEGMENT_RULES[k][1]
        /\ ({row.R_Score, row.F_Score, row.M_Score} \subseteq {4, 5})
              => (Matches(2, row) /\ segment = "Champions")

\* the triple (5,5,5), inside two catalogue entries, is a Champion
C21_Witness ==
    /\ pc = "assigned"
    /\ row = [R_Score |-> 5, F_Score |-> 5, M_Score |-> 5]
    /\ Matches(1, row) /\ Matches(2, row)
    /\ segment = "Champions"

(***************************************************************************)
(* The direction of the Recency score.                                     *)
(***************************************************************************)
MaxRecencyRows == 4

\* the customer tables of n rows (n up to MaxRecencyRows) whose Recency values
\* may tie; Frequency is the row number and Monetary ten times it
RecencyInputs(n) ==
    {[i \in 1..n |-> [Recency |-> rec[i], Frequency |-> i, Monetary |-> 10 * i]] :
        rec \in [1..n -> 1..MaxRecency]}

InitScoreRecency ==
    /\ pc = "start"
    /\ \E n \in 0..MaxRecencyRows : rfm_df \in RecencyInputs(n)
    /\ scored = [raised |-> "notrun", rows |-> <<>>]
    /\ row = [R_Score |-> 0, F_Score |-> 0, M_Score |-> 0]
    /\ segment = "notrun"
    /\ order_history = EmptyFrame
    /\ rfm = NotRun
    /\ segmentation = NotRun
    /\ basket_matrix = NoMatrix
    /\ df = <<>>
    /\ IdleBasket
    /\ IdleMonitor

SpecScoreRecency == InitScoreRecency /\ [][NextScore]_vars

\* C22: whenever score_rfm returns, a customer with a smaller Recency has an
\* R_Score at least as high, customers with equal Recency have equal R_Score,
\* the customers with the smallest Recency have R_Score n_bins and those with
\* the largest have R_Score 1.
C22_RecencyInverted ==
    (pc = "scored" /\ scored.raised = "none") =>
        LET t == scored.rows
            recencies == {t[i].Recency : i \in DOMAIN t}
        IN /\ \A a, b \in DOMAIN t :
                 /\ (t[a].Recency < t[b].Recency) => (t[a].R_Score >= t[b].R_Score)
                 /\ (t[a].Recency = t[b].Recency) => (t[a].R_Score = t[b].R_Score)
           /\ \A a \in DOMAIN t :
                 /\ (t[a].Recency = Min(recencies)) => (t[a].R_Score = params.n_bins)
                 /\ (t[a].Recency = Max(recencies)) => (t[a].R_Score = 1)

\* score_rfm returned for several bins, two customers share the smallest
\* Recency and the score n_bins, a third is older and has the score 1
C22_Witness ==
    /\ pc = "scored"
    /\ scored.raised = "none"
    /\ params.n_bins >= 2
    /\ \E a, b, c \in DOMAIN scored.rows :
          /\ a # b
          /\ scored.rows[a].Recency = scored.rows[b].Recency
          /\ scored.rows[a].Recency < scored.rows[c].Recency
          /\ scored.rows[a].R_Score = params.n_bins
          /\ scored.rows[b].R_Score = params.n_bins
          /\ scored.rows[c].R_Score = 1

(***************************************************************************)
(* The customer table of calculate_rfm.                                    *)
(***************************************************************************)
RECURSIVE NetSalesOver(_, _)
\* the net revenue of the order lines with the row numbers S
NetSalesOver(d, S) ==
    IF S = {} THEN 0
    ELSE LET i == Min(S) IN d.rows[i].Net_Sales + NetSalesOver(d, S \ {i})

\* the order lines of customer c
LinesOf(c) == {i \in DOMAIN order_history.rows : order_history.rows[i].Customer_ID = c}

\* the customers that placed an order on the latest date of the history
LatestCustomers ==
    {order_history.rows[i].Customer_ID : i \in
        {j \in DOMAIN order_history.rows :
            \A k \in DOMAIN order_history.rows :
                order_history.rows[k].Order_Date <= order_history.rows[j].Order_Date}}

\* C23: calculate_rfm returns exactly one row per customer id with at least
\* one order; Recency is the days from the reference date back to the
\* customer's latest order date, Frequency the number of distinct order ids,
\* Monetary the sum of the net revenue.  With the default reference date every
\* Recency is at least 1 and is exactly 1 for the customers of the latest order.
C23_OneRowPerCustomer ==
    (pc = "calculated" /\ rfm.raised = "none") =>
        LET t == rfm.table.rows
            h == order_history.rows
        IN /\ {t[k].Customer_ID : k \in DOMAIN t} = {h[i].Customer_ID : i \in DOMAIN h}
           /\ \A j, k \in DOMAIN t : (t[j].Customer_ID = t[k].Customer_ID) => j = k
           /\ \A k \in DOMAIN t :
                 LET mine == LinesOf(t[k].Customer_ID)
                 IN /\ \E i \in mine :
                          /\ \A j \in mine : h[j].Order_Date <= h[i].Order_Date
                          /\ params.reference_date # 0 =>
                                 t[k].Recency = params.reference_date - h[i].Order_Date
                    /\ t[k].Frequency = Cardinality({h[i].Order_ID : i \in mine})
                    /\ t[k].Monetary = NetSalesOver(order_history, mine)
                    /\ params.reference_date = 0 =>
                          /\ t[k].Recency >= 1
                          /\ (t[k].Customer_ID \in LatestCustomers) <=> (t[k].Recency = 1)

\* under the default reference date a customer with two lines of the same
\* order, on different dates, has Recency 1, Frequency 1 and the revenue of
\* both lines
C23_Witness ==
    /\ pc = "calculated"
    /\ rfm.raised = "none"
    /\ params.reference_date = 0
    /\ \E k \in DOMAIN rfm.table.rows :
          /\ rfm.table.rows[k].Recency = 1
          /\ rfm.table.rows[k].Frequency = 1
          /\ Cardinality(LinesOf(rfm.table.rows[k].Customer_ID)) = 2
          /\ Cardinality({order_history.rows[i].Order_Date : i \in DOMAIN order_history.rows}) = 2
          /\ rfm.table.rows[k].Monetary = 2 * order_history.rows[1].Net_Sales

(***************************************************************************)
(* The core operations called on the tables a caller holds.                *)
(***************************************************************************)
MaxCoreRows == 2

\* the caller holds one table of up to MaxCoreRows rows: transaction lines, a
\* basket matrix, an order history (its dates datetime64 or text) or a
\* customer table; the others are empty
InitCore ==
    /\ pc = "start"
    /\ \E n \in 0..MaxCoreRows :
          \/ /\ df \in DfTablesOf(n)
             /\ basket_matrix = NoMatrix
             /\ order_history = EmptyFrame
             /\ rfm_df = <<>>
          \/ /\ df = <<>>
             /\ basket_matrix \in {[columns |-> Products, rows |-> r, dtype |-> "int64"] :
                                      r \in RowListsOf(n)}
             /\ order_history = EmptyFrame
             /\ rfm_df = <<>>
          \/ /\ df = <<>>
             /\ basket_matrix = NoMatrix
             /\ order_history \in
                   OrderTables(n)
                       \cup {DatesAsText(t) : t \in OrderTables(n) \ {EmptyFrame}}
             /\ rfm_df = <<>>
          \/ /\ df = <<>>
             /\ basket_matrix = NoMatrix
             /\ order_history = EmptyFrame
             /\ rfm_df \in RfmInputs(n)
    /\ scored = [raised |-> "notrun", rows |-> <<>>]
    /\ row = [R_Score |-> 0, F_Score |-> 0, M_Score |-> 0]
    /\ segment = "notrun"
    /\ rfm = NotRun
    /\ segmentation = NotRun
    /\ IdleBasket
    /\ IdleMonitor

\* get_product_recommendations called on the rule table as it was generated
GetRecommendationsFromTable ==
    /\ pc = "ruled"
    /\ rules.raised = "none"
    /\ \E product_name \in Products, top_n \in {1, 5} :
          \E run \in {GetProductRecommendationsCall(<<rules.table>>, 1, product_name,
                                                   top_n, params.ties)} :
             /\ selection' = run.result
             /\ rules' = [rules EXCEPT !.table = run.heap[1]]
             /\ params' = [params EXCEPT !.product_name = product_name,
                                         !.top_n = top_n,
                                         !.given = 1, !.returned = run.ref]
    /\ pc' = "recommended"
    /\ UNCHANGED <<basket_matrix, frequent_itemsets, rules_input, rerun, df, analysis>>
    /\ UNCHANGED rfmVars
    /\ UNCHANGED monitor

NextCore ==
    \/ CreateBasketMatrix
    \/ MineForRules
    \/ GenerateAssociationRules
    \/ GetRecommendationsFromTable
    \/ GetBundlesFromTable
    \/ CalculateRfm
    \/ ScoreRfm

SpecCore == InitCore /\ [][NextCore]_vars

\* C24: no core operation changes the table it is given: when a call of
\* create_basket_matrix, find_frequent_itemsets, generate_associion_rules,
\* calculate_rfm, score_rfm, get_product_recommendations or
\* get_bundle_opportunities ends, the object the caller passed holds the rows,
\* columns and values it held before, and the table returned is another
\* object.
C24_InputsUnchanged ==
    [][/\ (pc' = "built") => (df' = df)
       /\ (pc' = "mined") => (basket_matrix' = basket_matrix)
       /\ (pc' = "ruled") =>
             /\ frequent_itemsets' = frequent_itemsets
             /\ rules_input' = WithoutSingle(frequent_itemsets.table, params'.dropped)
       /\ (pc' = "calculated") => (order_history' = order_history)
       /\ (pc' = "scored") => (rfm_df' = rfm_df)
       /\ (pc' = "recommended") => (rules' = rules /\ rules_input' = rules_input)
       /\ (pc' = "bundled") => (rules' = rules /\ rules_input' = rules_input)
       /\ (pc' # pc /\ params'.returned # 0) => (params'.returned # params'.given)]_vars

\* score_rfm returned a scored table of two customers, another object than
\* the table it was given, which still has no score column
C24_Witness ==
    /\ pc = "scored"
    /\ scored.raised = "none"
    /\ Len(scored.rows) = 2
    /\ params.returned # 0
    /\ \A i \in DOMAIN rfm_df :
          /\ "R_Score" \notin DOMAIN rfm_df[i]
          /\ "R_Score" \in DOMAIN scored.rows[i]

(***************************************************************************)
(* The rule generator fed the miner's own table.                           *)
(***************************************************************************)
\* the miner called with a support threshold of 0, 1/2 or the default
MineAtAnySupport ==
    FindWith({Zero, <<1, 2>>, <<1, 100>>}, {MaxLength}, Environments)

\* the rule generator called on the table exactly as the miner returned it
GenerateFromMined == GenerateWith({<<1, 2>>}, {Zero}, {0})

NextClosure == MineAtAnySupport \/ GenerateFromMined

SpecClosure == InitMiner /\ [][NextClosure]_vars

\* C25: the table find_frequent_itemsets returns is downward closed: with an
\* itemset it holds every non-empty subset of it, as a sorted tuple.  So when
\* generate_associion_rules is given that table, the antecedent and the
\* consequent of every split have a row in it, and no split lacks a support.
C25_DownwardClosed ==
    /\ (pc \in {"mined", "ruled"} /\ frequent_itemsets.raised = "none") =>
          \A r \in Range(frequent_itemsets.table.rows) :
              \A S \in (SUBSET Range(r.itemsets)) \ {{}} :
                  \E q \in Range(frequent_itemsets.table.rows) : q.itemsets = SortedTuple(S)
    /\ (pc = "ruled" /\ rules.raised = "none") =>
          /\ rules_input = frequent_itemsets.table
          /\ \A i \in Range(rules_input.rows) :
                \A sp \in Splits(i.itemsets) :
                    HasSupport(rules_input, sp[1]) /\ HasSupport(rules_input, sp[2])

\* rules were generated from a table mined under the threshold 1/2 that holds
\* a pair of products and lacks a product that was bought in some order
C25_Witness ==
    /\ pc = "ruled"
    /\ rules.raised = "none"
    /\ params.min_support = <<1, 2>>
    /\ \E i \in Range(rules_input.rows) : i.length = 2
    /\ \E p \in basket_matrix.columns :
          /\ OrdersContaining(basket_matrix, {p}) >= 1
          /\ ~HasSupport(rules_input, <<p>>)
    /\ rules.table.rows # <<>>

(***************************************************************************)
(* The segments the classifier returns over {1..5}^3.                      *)
(***************************************************************************)
\* the position of a name in the catalogue
EntryOf(name) == CHOOSE k \in DOMAIN SEGMENT_RULES : SEGMENT_RULES[k][1] = name

\* the names of the catalogue that some triple of {1..5}^3 is given
ReturnedNames ==
    {assign_segment(w) : w \in [R_Score : Scores, F_Score : Scores, M_Score : Scores]}

\* C26: over {1..5}^3 assign_segment never returns 'Cant Lose Them' or 'Lost':
\* a triple in the ranges of 'Cant Lose Them' is matched by the earlier entry
\* 'At Risk', a triple in the ranges of 'Lost' by the earlier 'Hibernating',
\* and an unmatched triple has a sum of at least 4.  The names returned are
\* the other nine names of the catalogue.
C26_TwoSegmentsNeverReturned ==
    pc = "assigned" =>
        /\ segment \notin {"Cant Lose Them", "Lost"}
        /\ Matches(EntryOf("Cant Lose Them"), row) =>
              /\ EntryOf("At Risk") < EntryOf("Cant Lose Them")
              /\ Matches(EntryOf("At Risk"), row)
        /\ Matches(EntryOf("Lost"), row) =>
              /\ EntryOf("Hibernating") < EntryOf("Lost")
              /\ Matches(EntryOf("Hibernating"), row)
        /\ Unmatched(row) => RowSum(row) >= 4
        /\ ReturnedNames = SegmentNames \ {"Cant Lose Them", "Lost"}

\* the triple (1,5,5) lies in the ranges of 'Cant Lose Them' and is 'At Risk'
C26_Witness ==
    /\ pc = "assigned"
    /\ row = [R_Score |-> 1, F_Score |-> 5, M_Score |-> 5]
    /\ Matches(EntryOf("Cant Lose Them"), row)
    /\ segment = "At Risk"

(***************************************************************************)
(* The branches of the fallback taken over {1..5}^3.                       *)
(***************************************************************************)
\* the sums R + F + M of the triples of {1..5}^3 that match no catalogue entry
UnmatchedSums ==
    {RowSum(w) : w \in {v \in [R_Score : Scores, F_Score : Scores, M_Score : Scores] :
                            Unmatched(v)}}

\* C27: over {1..5}^3 the fallback of assign_segment is reached, and a triple
\* that matches no catalogue entry has a sum R + F + M in 5..12: the fallback
\* returns only 'Potential Loyalist', 'Need Attention' or 'At Risk', and
\* neither its branch for a sum of 13 or more nor its branch for a sum below
\* 4 is taken.
C27_FallbackPartlyReachable ==
    pc = "assigned" =>
        /\ UnmatchedSums # {}
        /\ UnmatchedSums \subseteq 5..12
        /\ Unmatched(row) =>
              /\ RowSum(row) \in 5..12
              /\ segment \in {"Potential Loyalist", "Need Attention", "At Risk"}
              /\ segment = Fallback(RowSum(row))

\* an unmatched triple with the sum 12, named by the fallback
C27_Witness ==
    /\ pc = "assigned"
    /\ Unmatched(row)
    /\ RowSum(row) = 12
    /\ segment = "Potential Loyalist"

(***************************************************************************)
(* The keys of the three segment tables.                                   *)
(***************************************************************************)
StrategyKeys == {SEGMENT_STRATEGIES[k][1] : k \in DOMAIN SEGMENT_STRATEGIES}

ColorKeys == {SEGMENT_COLORS[k][1] : k \in DOMAIN SEGMENT_COLORS}

\* the names the fallback gives to the sums of three scores
FallbackNames == {Fallback(rfm_sum) : rfm_sum \in 0..(3 * MaxScore)}

\* C28: SEGMENT_RULES, SEGMENT_STRATEGIES and SEGMENT_COLORS have the same keys,
\* and every name assign_segment can return, a catalogue name or one of the
\* five fallback names, is among them; so every customer of the table
\* create_rfm_segmentation returns has the Strategy of its Segment, never a
\* missing one.
C28_EverySegmentHasStrategy ==
    /\ StrategyKeys = SegmentNames
    /\ ColorKeys = SegmentNames
    /\ FallbackNames \subseteq (StrategyKeys \cap ColorKeys)
    /\ (pc = "segmented" /\ segmentation.raised = "none") =>
          \A r \in Range(segmentation.table.rows) :
              /\ r.Segment \in (StrategyKeys \cap ColorKeys)
              /\ r.Strategy # "NaN"
              /\ \E k \in DOMAIN SEGMENT_STRATEGIES :
                    SEGMENT_STRATEGIES[k] = <<r.Segment, r.Strategy>>

\* create_rfm_segmentation returned a customer that no catalogue entry
\* matches, named 'Need Attention' by the fallback, with the strategy of that
\* name
C28_Witness ==
    /\ pc = "segmented"
    /\ segmentation.raised = "none"
    /\ \E r \in Range(segmentation.table.rows) :
          /\ Unmatched(r)
          /\ r.Segment = "Need Attention"
          /\ r.Strategy = "Reactivate with limited-time offers, highlight new products."

(***************************************************************************)
(* The include_platform argument.                                          *)
(***************************************************************************)
\* the customers, RFM values, scores and segments of an outcome of
\* create_rfm_segmentation
CustomerSegments(outcome) ==
    [raised |-> outcome.raised,
     rows |-> [i \in DOMAIN outcome.table.rows |->
                  LET r == outcome.table.rows[i]
                  IN [Customer_ID |-> r.Customer_ID, Recency |-> r.Recency,
                      Frequency |-> r.Frequency, Monetary |-> r.Monetary,
                      R_Score |-> r.R_Score, F_Score |-> r.F_Score,
                      M_Score |-> r.M_Score, Segment |-> r.Segment]]]

\* C29: include_platform does not change what create_rfm_segmentation gives:
\* on the same order data and reference date, in the same installation, the
\* call with the other value of include_platform has the same outcome, with
\* the same customers, RFM values, scores and segments, whether or not the
\* data has a Platform column.
C29_IncludePlatformIgnored ==
    pc = "segmented" =>
        \A now \in Clock, arith \in Arithmetics :
            /\ CustomerSegments(
                   create_rfm_segmentation(order_history, params.reference_date,
                                           ~params.include_platform, now, arith))
               = CustomerSegments(
                    create_rfm_segmentation(order_history, params.reference_date,
                                            params.include_platform, now, arith))
            /\ \E build \in Arithmetics :
                  CustomerSegments(
                      create_rfm_segmentation(order_history, params.reference_date,
                                              ~params.include_platform, now, build))
                  = CustomerSegments(segmentation)

\* create_rfm_segmentation returned two customers for include_platform=True
\* and a history with a Platform column where one customer has two lines
C29_Witness ==
    /\ pc = "segmented"
    /\ segmentation.raised = "none"
    /\ params.include_platform
    /\ "Platform" \in order_history.columns
    /\ Len(segmentation.table.rows) = 2
    /\ Len(order_history.rows) = 3

(***************************************************************************)
(* The file monitor (auto_monitor.py).                                     *)
(***************************************************************************)
\* two of the watched folders, and the file name looked at in each
FOLDERS == {"orders", "ads"}

WatchedNames == {"report.xlsx"}

\* a watched path: (folder, file name)
WatchedPaths == FOLDERS \X WatchedNames

\* what a path holds: no file, a file that cannot be read (open elsewhere),
\* or a file with one of two contents
FileStates == {"absent", "locked", "v1", "v2"}

\* get_file_hash: the MD5 digest of the content, None if reading fails
get_file_hash(content) ==
    CASE content = "v1" -> "md5 of v1"
      [] content = "v2" -> "md5 of v2"
      [] OTHER -> "None"

\* datetime.isoformat of the time of the clock
isoformat(now) == <<"iso", now>>

\* what scan_folders returns when no file changes while it runs: an entry
\* for every file present; of the entry the hash alone is ever read again
scan_folders(disk) ==
    [p \in {q \in DOMAIN disk : disk[q] # "absent"} |->
        [hash |-> get_file_hash(disk[p])]]

\* check_for_new_files after its scan returned current_files: the files of
\* the scan without a stored entry, and those whose hash is not the stored
\* one
check_for_new_files(config, current_files) ==
    LET old_hashes == config.file_hashes
    IN [new_files |-> {p \in DOMAIN current_files : p \notin DOMAIN old_hashes},
        modified_files |->
            {p \in DOMAIN current_files :
                p \in DOMAIN old_hashes /\ current_files[p].hash # old_hashes[p].hash},
        current_files |-> current_files]

\* config['file_hashes'] = current_files; config['last_run'] = now;
\* save_config(config)
ConfigStored(config, current_files, now) ==
    [config EXCEPT !.file_hashes = current_files, !.last_run = isoformat(now)]

\* the configuration saved whatever run_pipeline returned
ConfigSavedAlways(config, current_files, succeeded, now) ==
    ConfigStored(config, current_files, now)

\* the configuration on disk when process_once ends after a pipeline run
ConfigAfterRun(config, current_files, succeeded, now) ==
    IF succeeded THEN ConfigStored(config, current_files, now) ELSE config

\* the monitor starts with no configuration file (load_config gives the
\* defaults) and any content of the watched folders
InitMonitor ==
    /\ pc = "start"
    /\ \E disk \in [WatchedPaths -> FileStates] :
          monitor = [NoMonitor EXCEPT !.disk = disk]
    /\ basket_matrix = NoMatrix
    /\ df = <<>>
    /\ IdleBasket
    /\ IdleRfm

\* no call of the monitor is under way
MonitorIdle == pc \notin {"scanning", "running"}

\* a file is added, removed, rewritten, locked or released; this can happen
\* at any time, also between two reads of a scan and while the pipeline runs
FileChange ==
    /\ \E p \in WatchedPaths, c \in FileStates :
          /\ c # monitor.disk[p]
          /\ monitor' = [monitor EXCEPT !.disk[p] = c,
                                        !.steady = (pc # "scanning") /\ monitor.steady]
    /\ UNCHANGED pc
    /\ UNCHANGED <<params, basketVars, rfmVars>>

\* FOLDERS.items() in the order of the dictionary
FolderOrder == <<"orders", "ads">>

\* the file scan_folders is at: the one report of the folder it visits
ScannedPath(m) == <<Head(m.folders), "report.xlsx">>

\* scan_folders is entered: files_info = {}, no folder visited yet
ScanBegun(m) ==
    [m EXCEPT !.folders = FolderOrder, !.at = "glob", !.file_hash = "None",
              !.files_info = <<>>, !.steady = TRUE]

\* scan_folders leaves a folder
FolderDone(m) ==
    [m EXCEPT !.folders = Tail(m.folders), !.at = "glob", !.file_hash = "None"]

\* the scan is left, by its return or by an exception
ScanLeft(m) ==
    [m EXCEPT !.folders = <<>>, !.at = "idle", !.file_hash = "None",
              !.files_info = <<>>, !.after = NoReport, !.steady = TRUE]

\* a call begins: the locals of the call before it are gone
CallBegun(m, mode) ==
    [m EXCEPT !.mode = mode, !.current_files = <<>>, !.new_files = {},
              !.modified_files = {}, !.after = NoReport]

\* what a process_once reported whose pipeline failed
FailedReport(m) ==
    [failed |-> TRUE, current_files |-> m.current_files, new_files |-> m.new_files,
     modified_files |-> m.modified_files]

\* process_once is called: the configuration is loaded and
\* check_for_new_files enters scan_folders
ProcessOnceBegins ==
    /\ MonitorIdle
    /\ monitor' = [ScanBegun(CallBegun(monitor, "once")) EXCEPT
                       !.after = IF pc = "failed" /\ monitor.mode = "once"
                                 THEN FailedReport(monitor) ELSE NoReport]
    /\ pc' = "scanning"
    /\ UNCHANGED <<params, basketVars, rfmVars>>

\* folder_path.glob(ext) lists the folder: the file found there is hashed
\* next, a folder without a file is left
ScanGlobs ==
    /\ pc = "scanning"
    /\ monitor.at = "glob"
    /\ monitor.folders # <<>>
    /\ monitor' = IF monitor.disk[ScannedPath(monitor)] = "absent"
                  THEN FolderDone(monitor)
                  ELSE [monitor EXCEPT !.at = "hash"]
    /\ UNCHANGED pc
    /\ UNCHANGED <<params, basketVars, rfmVars>>

\* file_hash = get_file_hash(filepath): the file is read now; None when it
\* cannot be opened (locked, or removed since the listing)
ScanHashes ==
    /\ pc = "scanning"
    /\ monitor.at = "hash"
    /\ monitor' = [monitor EXCEPT
                       !.file_hash = get_file_hash(monitor.disk[ScannedPath(monitor)]),
                       !.at = "mtime"]
    /\ UNCHANGED pc
    /\ UNCHANGED <<params, basketVars, rfmVars>>

\* filepath.stat() for the time of modification, and once more for the size:
\* FileNotFoundError leaves scan_folders and its callers when the file is
\* gone; after the second one the entry of the file is written
ScanStats ==
    /\ pc = "scanning"
    /\ monitor.at \in {"mtime", "size"}
    /\ IF monitor.disk[ScannedPath(monitor)] = "absent"
       THEN /\ monitor' = ScanLeft(monitor)
            /\ pc' = "raised"
       ELSE /\ monitor' =
                  IF monitor.at = "mtime" THEN [monitor EXCEPT !.at = "size"]
                  ELSE FolderDone(
                           [monitor EXCEPT !.files_info =
                               (ScannedPath(monitor) :> [hash |-> monitor.file_hash])
                                   @@ monitor.files_info])
            /\ UNCHANGED pc
    /\ UNCHANGED <<params, basketVars, rfmVars>>

\* the scan of process_once returns: the new and the modified files are
\* listed; without any the call ends, else run_pipeline is called
ProcessOnceChecks ==
    /\ pc = "scanning"
    /\ monitor.mode = "once"
    /\ monitor.at = "glob"
    /\ monitor.folders = <<>>
    /\ \E found \in {check_for_new_files(monitor.config, monitor.files_info)} :
          /\ monitor' = [ScanLeft(monitor) EXCEPT
                             !.current_files = found.current_files,
                             !.new_files = found.new_files,
                             !.modified_files = found.modified_files]
          /\ pc' = IF found.new_files # {} \/ found.modified_files # {}
                   THEN "running" ELSE "unchanged"
    /\ UNCHANGED <<params, basketVars, rfmVars>>

\* run_pipeline returns to process_once (the subprocess succeeded or failed)
\* and process_once ends
PipelineReturns ==
    /\ pc = "running"
    /\ monitor.mode = "once"
    /\ \E succeeded \in BOOLEAN, now \in Clock :
          /\ monitor' = [monitor EXCEPT !.config =
                             ConfigAfterRun(monitor.config, monitor.current_files,
                                            succeeded, now)]
          /\ pc' = IF succeeded THEN "succeeded" ELSE "failed"
    /\ UNCHANGED <<params, basketVars, rfmVars>>

\* run_scheduled is called: the pipeline is run whatever the folders hold
RunScheduled ==
    /\ MonitorIdle
    /\ monitor' = CallBegun(monitor, "scheduled")
    /\ pc' = "running"
    /\ UNCHANGED <<params, basketVars, rfmVars>>

\* run_pipeline returns to run_scheduled: after a success the folders are
\* scanned, after a failure the call ends
ScheduledPipelineReturns ==
    /\ pc = "running"
    /\ monitor.mode = "scheduled"
    /\ \E succeeded \in BOOLEAN :
          /\ monitor' = IF succeeded THEN ScanBegun(monitor) ELSE monitor
          /\ pc' = IF succeeded THEN "scanning" ELSE "failed"
    /\ UNCHANGED <<params, basketVars, rfmVars>>

\* the script is started with --force (and the mode 'once'): the pipeline
\* is run whatever the folders hold
ForceRun ==
    /\ MonitorIdle
    /\ monitor' = CallBegun(monitor, "force")
    /\ pc' = "running"
    /\ UNCHANGED <<params, basketVars, rfmVars>>

\* run_pipeline returns to the forced run, which does not look at what it
\* returned: the folders are scanned
ForcedPipelineReturns ==
    /\ pc = "running"
    /\ monitor.mode = "force"
    /\ monitor' = ScanBegun(monitor)
    /\ pc' = "scanning"
    /\ UNCHANGED <<params, basketVars, rfmVars>>

\* the scan of run_scheduled or of the forced run returns: its result and
\* the time are stored
ScanStored ==
    /\ pc = "scanning"
    /\ monitor.mode \in {"scheduled", "force"}
    /\ monitor.at = "glob"
    /\ monitor.folders = <<>>
    /\ \E now \in Clock :
          monitor' = [ScanLeft(monitor) EXCEPT
                         !.current_files = monitor.files_info,
                         !.config = ConfigStored(monitor.config, monitor.files_info, now)]
    /\ pc' = "stored"
    /\ UNCHANGED <<params, basketVars, rfmVars>>

NextMonitor ==
    \/ FileChange
    \/ ProcessOnceBegins
    \/ ScanGlobs
    \/ ScanHashes
    \/ ScanStats
    \/ ProcessOnceChecks
    \/ PipelineReturns
    \/ RunScheduled
    \/ ScheduledPipelineReturns
    \/ ForceRun
    \/ ForcedPipelineReturns
    \/ ScanStored

SpecMonitor == InitMonitor /\ [][NextMonitor]_vars

\* the files of the folders that are new or differ from the stored hashes
Differing(m) ==
    {p \in WatchedPaths :
        /\ m.disk[p] # "absent"
        /\ \/ p \notin DOMAIN m.config.file_hashes
           \/ m.config.file_hashes[p].hash # get_file_hash(m.disk[p])}

\* the files a scan shows as new or with another hash than the stored one
Shown(files, config) ==
    {p \in DOMAIN files :
        \/ p \notin DOMAIN config.file_hashes
        \/ config.file_hashes[p].hash # files[p].hash}

\* a step of a process_once call
OfProcessOnce == monitor.mode = "once" /\ monitor'.mode = "once"

\* C30: over any sequence of process_once calls and file changes, a call runs
\* the pipeline exactly when its scan shows a file that is new or whose hash
\* differs from the stored one (the scan of folders left alone during the
\* call shows the files that differ on disk); the stored file_hashes and
\* last_run are replaced, by the scan taken before the run, only when the
\* run succeeds; after a failed run the stored hashes are unchanged, and a
\* next call whose scan is the same reports the same new and modified files
\* and runs again.
C30_StoredHashesFollowSuccess ==
    [][/\ (OfProcessOnce /\ pc = "scanning" /\ pc' \in {"running", "unchanged"}) =>
             /\ (pc' = "running") <=> (Shown(monitor'.current_files, monitor.config) # {})
             /\ monitor'.new_files \cup monitor'.modified_files
                    = Shown(monitor'.current_files, monitor.config)
             /\ monitor.steady =>
                    /\ monitor'.current_files = scan_folders(monitor.disk)
                    /\ monitor'.new_files \cup monitor'.modified_files = Differing(monitor)
             /\ (monitor.after.failed
                    /\ monitor'.current_files = monitor.after.current_files) =>
                   /\ pc' = "running"
                   /\ monitor'.new_files = monitor.after.new_files
                   /\ monitor'.modified_files = monitor.after.modified_files
       /\ (OfProcessOnce /\ pc = "running" /\ pc' = "succeeded") =>
             /\ monitor'.config.file_hashes = monitor.current_files
             /\ monitor'.config.last_run \in {isoformat(now) : now \in Clock}
       /\ (OfProcessOnce /\ ~(pc = "running" /\ pc' = "succeeded")) =>
             (monitor'.config = monitor.config)]_vars

\* after an earlier successful run a file was rewritten and reported as
\* modified, the pipeline failed, and the stored hashes are still the old ones
C30_Witness ==
    /\ pc = "failed"
    /\ monitor.mode = "once"
    /\ monitor.config.last_run # <<"None">>
    /\ monitor.modified_files # {}
    /\ monitor.config.file_hashes # monitor.current_files
    /\ Differing(monitor) = monitor.modified_files

====
